---- MODULE Spec2Model ----
(***************************************************************************)
(* Verification model of go-galaxy: the local cache lock, the snapshot     *)
(* store, the dependency resolver and the per-level installer with its     *)
(* prefetcher.  Each component has its own group of variables and its own  *)
(* specification; a specification leaves the other groups unchanged.       *)
(***************************************************************************)
EXTENDS Integers, Sequences, FiniteSets, TLC

(***************************************************************************)
(* Local cache lock (internal/galaxy/store/lock.go) and the part of an     *)
(* install run that touches the lock file (initInstall, runInstall).       *)
(***************************************************************************)
VARIABLES
    lockFile,    \* the file .go-galaxy.lock: NoFile or [creator, written]
    alive,       \* alive[p]: the process with PID p is running
    lpc,         \* lpc[p]: position of process p in AcquireLock / the run
    lread,       \* lread[p]: the PID p decoded from the lock file (current.PID)
    clearCache   \* clearCache[p]: cfg.ClearCache of the run of process p

lockVars == <<lockFile, alive, lpc, lread, clearCache>>

\* Number of competing processes.
NumProcs == 3

Procs == 1..NumProcs

NoFile == [creator |-> 0, written |-> FALSE]

\* marshalLockPayload: the payload is the JSON object {pid}.
marshalLockPayload(p) == [creator |-> p, written |-> TRUE]

\* Positions at which AcquireLock has returned a release closure that has not
\* been invoked yet.
HeldPcs == {"held", "clear", "run"}

InitLockVars ==
    /\ lockFile = NoFile
    /\ alive = [p \in Procs |-> TRUE]
    /\ lpc = [p \in Procs |-> "try"]
    /\ lread = [p \in Procs |-> 0]

\* tryCreateLock, the O_CREATE|O_EXCL open: it creates an empty file or
\* reports that the file exists.
tryCreateLock(p) ==
    /\ alive[p] /\ lpc[p] = "try"
    /\ IF lockFile = NoFile
         THEN /\ lockFile' = [creator |-> p, written |-> FALSE]
              /\ lpc' = [lpc EXCEPT ![p] = "write"]
         ELSE /\ lpc' = [lpc EXCEPT ![p] = "exists"]
              /\ UNCHANGED lockFile
    /\ UNCHANGED <<alive, lread, clearCache>>

\* writeLockFile: the payload goes to the file this process created; when the
\* path was unlinked meanwhile the write lands in the unlinked file.
writeLockFile(p) ==
    /\ alive[p] /\ lpc[p] = "write"
    /\ lockFile' = IF lockFile.creator = p THEN marshalLockPayload(p) ELSE lockFile
    /\ lpc' = [lpc EXCEPT ![p] = "held"]
    /\ UNCHANGED <<alive, lread, clearCache>>

\* readLockInfo, called by handleExistingLock: a missing file restarts the
\* loop, an empty (not yet written) file is invalid JSON.
readLockInfo(p) ==
    /\ alive[p] /\ lpc[p] = "exists"
    /\ IF lockFile = NoFile
         THEN /\ lpc' = [lpc EXCEPT ![p] = "try"]
              /\ UNCHANGED lread
         ELSE IF ~lockFile.written
           THEN /\ lpc' = [lpc EXCEPT ![p] = "failed"]
                /\ UNCHANGED lread
           ELSE /\ lread' = [lread EXCEPT ![p] = lockFile.creator]
                /\ lpc' = [lpc EXCEPT ![p] = "probe"]
    /\ UNCHANGED <<lockFile, alive, clearCache>>

\* isLockActive: the zero-signal probe of the recorded PID; a process whose
\* run has returned ("done", "failed") has exited.
isLockActive(pid) == pid > 0 /\ alive[pid] /\ lpc[pid] \notin {"done", "failed"}

\* handleExistingLock after the read: AnotherInstanceIsRunning when the
\* recorded PID is alive, otherwise the lock is judged stale.
handleExistingLock(p) ==
    /\ alive[p] /\ lpc[p] = "probe"
    /\ lpc' = [lpc EXCEPT ![p] = IF isLockActive(lread[p]) THEN "failed" ELSE "remove"]
    /\ UNCHANGED <<lockFile, alive, lread, clearCache>>

\* handleExistingLock, os.Remove(lockPath) of the lock judged stale, then the
\* loop of AcquireLock tries to create again.
removeStaleLock(p) ==
    /\ alive[p] /\ lpc[p] = "remove"
    /\ lockFile' = NoFile
    /\ lpc' = [lpc EXCEPT ![p] = "try"]
    /\ UNCHANGED <<alive, lread, clearCache>>

\* initInstall after Lock: LoadStore, then ClearCaches/ClearFiles when
\* cfg.ClearCache is set.
LoadStore(p) ==
    /\ alive[p] /\ lpc[p] = "held"
    /\ lpc' = [lpc EXCEPT ![p] = IF clearCache[p] THEN "clear" ELSE "run"]
    /\ UNCHANGED <<lockFile, alive, lread, clearCache>>

\* isDeleteCacheName lists the lock file name among the files to delete.
isDeleteCacheName(name) ==
    name \in {"go-galaxy-api-cache.db", "go-galaxy-deps-cache.db",
              "go-galaxy-versions.db", ".go-galaxy.lock", "go-galaxy.db"}

\* ClearCacheFiles: every file of the cache directory whose name is in the
\* delete list is removed.
ClearCacheFiles(p) ==
    /\ alive[p] /\ lpc[p] = "clear"
    /\ lockFile' = IF isDeleteCacheName(".go-galaxy.lock") THEN NoFile ELSE lockFile
    /\ lpc' = [lpc EXCEPT ![p] = "run"]
    /\ UNCHANGED <<alive, lread, clearCache>>

\* releaseLock, the read and compare: a missing file or a file with another
\* payload ends the release without removing anything.
releaseLock(p) ==
    /\ alive[p] /\ lpc[p] = "run"
    /\ lpc' = [lpc EXCEPT ![p] =
                 IF lockFile = marshalLockPayload(p) THEN "rel_remove" ELSE "done"]
    /\ UNCHANGED <<lockFile, alive, lread, clearCache>>

\* releaseLock, the os.Remove(lockPath) after the compare.
releaseRemove(p) ==
    /\ alive[p] /\ lpc[p] = "rel_remove"
    /\ lockFile' = NoFile
    /\ lpc' = [lpc EXCEPT ![p] = "done"]
    /\ UNCHANGED <<alive, lread, clearCache>>

\* The process is killed; nothing runs its deferred release.
Crash(p) ==
    /\ alive[p] /\ lpc[p] \notin {"done", "failed"}
    /\ alive' = [alive EXCEPT ![p] = FALSE]
    /\ UNCHANGED <<lockFile, lpc, lread, clearCache>>

Holds(p) == alive[p] /\ lpc[p] \in HeldPcs

(***************************************************************************)
(* Snapshot persistence (package store: Save, Load, runSaveSteps).  Every  *)
(* bucket lives in its own Bolt database file and is rewritten by its own  *)
(* transaction.  A bucket's content is identified by the generation of the *)
(* in-memory store that was written to it.                                 *)
(***************************************************************************)
VARIABLES
    disk,        \* disk[b]: generation of the data persisted in bucket b
    diskSchema,  \* persisted meta.schema_version
    mem,         \* generation of the in-memory store of the running process
    spc,         \* "idle", "loaded" (a run holds the loaded store) or "saving"
    sstep,       \* index of the next step of Save
    loaded       \* result of the last Load: NotLoaded, LoadError or bucket -> generation

saveVars == <<disk, diskSchema, mem, spc, sstep, loaded>>

\* Number of runs that modify and save the store.
MaxGen == 3

StoreSnapshotSchemaVersion == 2

\* Save: saveMeta first, then the steps of runSaveSteps in their order.
SaveSteps == <<"meta", "api_cache", "deps_cache", "installed", "graph",
               "requirements", "roots", "resolved", "versions_cache">>

Buckets == {SaveSteps[i] : i \in 1..Len(SaveSteps)}

NotLoaded == [b \in {"none"} |-> 0]
LoadError == [b \in {"error"} |-> 0]

InitSaveVars ==
    /\ disk = [b \in Buckets |-> 0]
    /\ diskSchema \in {StoreSnapshotSchemaVersion, StoreSnapshotSchemaVersion + 1}
    /\ mem = 0
    /\ spc = "idle"
    /\ sstep = 1
    /\ loaded = NotLoaded

\* validateSnapshotSchema: only a newer schema version is rejected.
validateSnapshotSchema(version) == version <= StoreSnapshotSchemaVersion

\* Load at the start of a run: loadMeta, validateSnapshotSchema,
\* runLoadSteps; one read transaction per bucket, nothing ties the buckets
\* together.  A run whose Load fails ends without saving.
Load ==
    /\ spc = "idle"
    /\ IF validateSnapshotSchema(diskSchema)
         THEN loaded' = disk /\ spc' = "loaded"
         ELSE loaded' = LoadError /\ spc' = "idle"
    /\ UNCHANGED <<disk, diskSchema, mem, sstep>>

\* The run changes the in-memory store and calls Save (snapshotData taken).
Save ==
    /\ spc = "loaded" /\ mem < MaxGen
    /\ mem' = mem + 1
    /\ spc' = "saving"
    /\ sstep' = 1
    /\ UNCHANGED <<disk, diskSchema, loaded>>

\* saveBucket / saveMeta: one db.Update transaction that empties the bucket
\* (ensureEmptyBucket) and fills it from the in-memory data.
saveBucket ==
    /\ spc = "saving"
    /\ disk' = [disk EXCEPT ![SaveSteps[sstep]] = mem]
    /\ diskSchema' = IF SaveSteps[sstep] = "meta" THEN StoreSnapshotSchemaVersion ELSE diskSchema
    /\ IF sstep = Len(SaveSteps)
         THEN spc' = "idle" /\ sstep' = 1
         ELSE spc' = "saving" /\ sstep' = sstep + 1
    /\ UNCHANGED <<mem, loaded>>

\* runSaveSteps returns at the first step that fails (its transaction is
\* rolled back), or the process is interrupted between two steps; the
\* remaining buckets keep what they held.
runSaveStepsFail ==
    /\ spc = "saving"
    /\ spc' = "idle"
    /\ sstep' = 1
    /\ UNCHANGED <<disk, diskSchema, mem, loaded>>

(***************************************************************************)
(* Topological levels (buildInstallLevels, buildDependencyIndex,           *)
(* topologicalLevels, nextLevel, applyLevel).  A graph is a function from  *)
(* its keys to the set of their dependency keys.                           *)
(***************************************************************************)

\* Every node buildDependencyIndex gives an indegree to: keys and dependencies.
GraphNodes(graph) == DOMAIN graph \cup UNION {graph[k] : k \in DOMAIN graph}

buildDependencyIndex(graph) ==
    [indegree |-> [n \in GraphNodes(graph) |->
                     IF n \in DOMAIN graph THEN Cardinality(graph[n]) ELSE 0],
     reverse  |-> [d \in GraphNodes(graph) |-> {n \in DOMAIN graph : d \in graph[n]}]]

\* nextLevel that takes every remaining node, whatever its indegree.
nextLevelAny(indegree) == DOMAIN indegree

nextLevel(indegree) == {n \in DOMAIN indegree : indegree[n] = 0}

\* applyLevel that deletes the level but decrements no dependent.
applyLevelNoDecrement(indegree, reverse, level) ==
    [n \in (DOMAIN indegree) \ level |-> indegree[n]]

applyLevel(indegree, reverse, level) ==
    [n \in (DOMAIN indegree) \ level |->
        indegree[n] - Cardinality({d \in level : n \in reverse[d]})]

RECURSIVE topologicalLevels(_, _, _)
topologicalLevels(indegree, reverse, levels) ==
    IF DOMAIN indegree = {}
      THEN [err |-> "nil", levels |-> levels]
      ELSE IF nextLevel(indegree) = {}
        THEN [err |-> "DependencyGraphHasACycle", levels |-> <<>>]
        ELSE topologicalLevels(applyLevel(indegree, reverse, nextLevel(indegree)),
                               reverse, Append(levels, nextLevel(indegree)))

buildInstallLevels(graph) ==
    topologicalLevels(buildDependencyIndex(graph).indegree,
                      buildDependencyIndex(graph).reverse, <<>>)

(***************************************************************************)
(* One install run from the prefetcher on: prepareInstallPlan              *)
(* (startPrefetcher, buildInstallLevels), installLevels, finalizeInstall,  *)
(* and the prefetcher (startPrefetchWorkers, prefetchOne, Wait, finish).   *)
(***************************************************************************)
VARIABLES
    iGraph,      \* the graph the resolver returned
    workers,     \* cfg.Workers
    ipc,         \* position of the main goroutine
    ilevels,     \* the levels of the plan
    ilevel,      \* index of the level being installed
    itask,       \* itask[k]: state of the install worker of key k
    iwait,       \* iwait[k]: what prefetch.Wait returned to the worker of k
    failures,    \* the atomic failure counter of installLevels
    iret,        \* what the run returned
    pdone,       \* prefetcher.done[k]: "nil", "open" or "closed"
    pmeta,       \* prefetcher.meta[k]
    perrs,       \* prefetcher.errs[k]
    closes,      \* closes[k]: number of close(done) executed for k
    ptask        \* ptask[k]: state of the prefetch task of key k

installVars == <<iGraph, workers, ipc, ilevels, ilevel, itask, iwait,
                 failures, iret, pdone, pmeta, perrs, closes, ptask>>

\* Number of collection keys of a run.
NumKeys == 3
\* Largest cfg.Workers.
MaxWorkers == 2

Keys == 1..NumKeys

\* Dependency edges a run may have: from a key to the next smaller key, and
\* the edge 1 -> 2 that can close a cycle.
CandidateEdges == {e \in Keys \X Keys : e[1] = e[2] + 1} \cup {<<1, 2>>}

GraphOf(E) == [k \in Keys |-> {d \in Keys : <<k, d>> \in E}]

NoWait == [ok |-> FALSE, meta |-> "nil", err |-> "nil"]
NoReturn == [err |-> "none", count |-> 0]

\* What prefetchOne can return: metadata and artifact, a metadata error, or
\* the metadata with a download error.
PrefetchOutcomes ==
    {[meta |-> "meta", err |-> "nil"], [meta |-> "nil", err |-> "err"],
     [meta |-> "meta", err |-> "err"]}

QuietInstallVars ==
    /\ iGraph = [k \in Keys |-> {}]
    /\ workers = 1
    /\ ipc = "start"
    /\ ilevels = <<>>
    /\ ilevel = 1
    /\ itask = [k \in Keys |-> "none"]
    /\ iwait = [k \in Keys |-> NoWait]
    /\ failures = 0
    /\ iret = NoReturn
    /\ pdone = [k \in Keys |-> "nil"]
    /\ pmeta = [k \in Keys |-> "nil"]
    /\ perrs = [k \in Keys |-> "nil"]
    /\ closes = [k \in Keys |-> 0]
    /\ ptask = [k \in Keys |-> "none"]

Max(a, b) == IF a >= b THEN a ELSE b

\* startPrefetcher: buildPrefetchTasks registers the keys that are neither
\* installed nor in the artifact store (none with NoCache), makeTaskChannel
\* queues them, startPrefetchWorkers starts max(cfg.Workers, 1) workers.
startPrefetcher ==
    /\ ipc = "start"
    /\ \E R \in SUBSET Keys :
         /\ pdone' = [k \in Keys |-> IF k \in R THEN "open" ELSE "nil"]
         /\ ptask' = [k \in Keys |-> IF k \in R THEN "queued" ELSE "none"]
    /\ ipc' = "levels"
    /\ UNCHANGED <<iGraph, workers, ilevels, ilevel, itask, iwait,
                   failures, iret, pmeta, perrs, closes>>

\* prepareInstallPlan after startPrefetcher: buildInstallLevels; a cycle
\* makes runInstall return the error.
planLevels ==
    /\ ipc = "levels"
    /\ IF buildInstallLevels(iGraph).err # "nil"
         THEN /\ ipc' = "returned"
              /\ iret' = [err |-> buildInstallLevels(iGraph).err, count |-> 0]
              /\ UNCHANGED ilevels
         ELSE /\ ilevels' = buildInstallLevels(iGraph).levels
              /\ ipc' = IF buildInstallLevels(iGraph).levels = <<>> THEN "save" ELSE "sched"
              /\ UNCHANGED iret
    /\ UNCHANGED <<iGraph, workers, ilevel, itask, iwait, failures,
                   pdone, pmeta, perrs, closes, ptask>>

Started(k) == itask[k] # "none"
Finished(k) == itask[k] \in {"ok", "failed"}

\* Install workers that hold a slot of the semaphore.
Running == {k \in Keys : Started(k) /\ ~Finished(k)}

\* installLevels, one iteration of the inner loop: take a slot of sem
\* (capacity cfg.Workers) and start the worker, which looks the key up in
\* prefetcher.done (Wait returns at once when there is no latch).
startInstall(k) ==
    /\ ipc = "sched"
    /\ k \in ilevels[ilevel] /\ ~Started(k)
    /\ Cardinality(Running) < workers
    /\ itask' = [itask EXCEPT ![k] = IF pdone[k] = "nil" THEN "install" ELSE "waiting"]
    /\ UNCHANGED <<iGraph, workers, ipc, ilevels, ilevel, iwait, failures, iret,
                   pdone, pmeta, perrs, closes, ptask>>

\* Wait without the receive from the latch: it reads meta and errs at once.
WaitNoLatch(k) ==
    /\ itask[k] = "waiting"
    /\ iwait' = [iwait EXCEPT ![k] = [ok |-> TRUE, meta |-> pmeta[k], err |-> perrs[k]]]
    /\ itask' = [itask EXCEPT ![k] = "install"]
    /\ UNCHANGED <<iGraph, workers, ipc, ilevels, ilevel, failures, iret,
                   pdone, pmeta, perrs, closes, ptask>>

\* prefetcher.Wait once the latch is closed: read meta and errs.
Wait(k) ==
    /\ itask[k] = "waiting"
    /\ pdone[k] = "closed"
    /\ iwait' = [iwait EXCEPT ![k] = [ok |-> TRUE, meta |-> pmeta[k], err |-> perrs[k]]]
    /\ itask' = [itask EXCEPT ![k] = "install"]
    /\ UNCHANGED <<iGraph, workers, ipc, ilevels, ilevel, failures, iret,
                   pdone, pmeta, perrs, closes, ptask>>

\* installCollection in a worker that does not count the failure.
installCollectionNoCount(k) ==
    /\ itask[k] = "install"
    /\ \E ok \in BOOLEAN :
         /\ itask' = [itask EXCEPT ![k] = IF ok THEN "ok" ELSE "failed"]
         /\ failures' = failures
    /\ UNCHANGED <<iGraph, workers, ipc, ilevels, ilevel, iwait, iret,
                   pdone, pmeta, perrs, closes, ptask>>

\* installCollection in the worker: it succeeds, or it fails and the worker
\* adds one to failures; the slot is given back.
installCollection(k) ==
    /\ itask[k] = "install"
    /\ \E ok \in BOOLEAN :
         /\ itask' = [itask EXCEPT ![k] = IF ok THEN "ok" ELSE "failed"]
         /\ failures' = IF ok THEN failures ELSE failures + 1
    /\ UNCHANGED <<iGraph, workers, ipc, ilevels, ilevel, iwait, iret,
                   pdone, pmeta, perrs, closes, ptask>>

\* installLevels without wg.Wait(): the level loop goes on as soon as every
\* key of the level has a worker.
levelDoneNoWait ==
    /\ ipc = "sched"
    /\ \A k \in ilevels[ilevel] : Started(k)
    /\ IF failures > 0 \/ ilevel = Len(ilevels)
         THEN ipc' = "save" /\ UNCHANGED ilevel
         ELSE ipc' = "sched" /\ ilevel' = ilevel + 1
    /\ UNCHANGED <<iGraph, workers, ilevels, itask, iwait, failures, iret,
                   pdone, pmeta, perrs, closes, ptask>>

\* installLevels: every key of the level has a worker, wg.Wait() returns,
\* then the check of failures.
levelDone ==
    /\ ipc = "sched"
    /\ \A k \in ilevels[ilevel] : Finished(k)
    /\ IF failures > 0 \/ ilevel = Len(ilevels)
         THEN ipc' = "save" /\ UNCHANGED ilevel
         ELSE ipc' = "sched" /\ ilevel' = ilevel + 1
    /\ UNCHANGED <<iGraph, workers, ilevels, itask, iwait, failures, iret,
                   pdone, pmeta, perrs, closes, ptask>>

\* finalizeInstall: backend.SaveStore starts.
SaveStore ==
    /\ ipc = "save"
    /\ ipc' = "saving"
    /\ UNCHANGED <<iGraph, workers, ilevels, ilevel, itask, iwait, failures,
                   iret, pdone, pmeta, perrs, closes, ptask>>

\* finalizeInstall after SaveStore: the save error, InstallationFailed with
\* the count, or nil.
finalizeInstall ==
    /\ ipc = "saving"
    /\ \E saveErr \in BOOLEAN :
         iret' = IF saveErr THEN [err |-> "SaveStore", count |-> 0]
                 ELSE IF failures > 0
                   THEN [err |-> "InstallationFailed", count |-> failures]
                   ELSE [err |-> "nil", count |-> 0]
    /\ ipc' = "returned"
    /\ UNCHANGED <<iGraph, workers, ilevels, ilevel, itask, iwait, failures,
                   pdone, pmeta, perrs, closes, ptask>>

\* Prefetch tasks a worker is busy with.
Prefetching == {k \in Keys : ptask[k] \in {"fetch", "close"}}

\* A prefetch worker (one of max(cfg.Workers, 1)) receives the task of k
\* from the task channel and enters prefetchOne: loadCollectionMetadata
\* (writes the API cache of the store), downloadCollectionToCache.
prefetchRecv(k) ==
    /\ ptask[k] = "queued"
    /\ Cardinality(Prefetching) < Max(workers, 1)
    /\ ptask' = [ptask EXCEPT ![k] = "fetch"]
    /\ UNCHANGED <<iGraph, workers, ipc, ilevels, ilevel, itask, iwait,
                   failures, iret, pdone, pmeta, perrs, closes>>

\* prefetchOne returns and finish records meta and err under the mutex.
finish(k) ==
    /\ ptask[k] = "fetch"
    /\ \E r \in PrefetchOutcomes :
         /\ pmeta' = [pmeta EXCEPT ![k] = r.meta]
         /\ perrs' = [perrs EXCEPT ![k] = r.err]
    /\ ptask' = [ptask EXCEPT ![k] = "close"]
    /\ UNCHANGED <<iGraph, workers, ipc, ilevels, ilevel, itask, iwait,
                   failures, iret, pdone, closes>>

\* finish that closes the latch only when prefetchOne returned no error.
finishCloseOnSuccess(k) ==
    /\ ptask[k] = "close"
    /\ IF pdone[k] # "nil" /\ perrs[k] = "nil"
         THEN /\ pdone' = [pdone EXCEPT ![k] = "closed"]
              /\ closes' = [closes EXCEPT ![k] = @ + 1]
         ELSE UNCHANGED <<pdone, closes>>
    /\ ptask' = [ptask EXCEPT ![k] = "done"]
    /\ UNCHANGED <<iGraph, workers, ipc, ilevels, ilevel, itask, iwait,
                   failures, iret, pmeta, perrs>>

\* finish after the mutex: close(done) when the key has a latch; the worker
\* goes back to the task channel.
finishClose(k) ==
    /\ ptask[k] = "close"
    /\ IF pdone[k] # "nil"
         THEN /\ pdone' = [pdone EXCEPT ![k] = "closed"]
              /\ closes' = [closes EXCEPT ![k] = @ + 1]
         ELSE UNCHANGED <<pdone, closes>>
    /\ ptask' = [ptask EXCEPT ![k] = "done"]
    /\ UNCHANGED <<iGraph, workers, ipc, ilevels, ilevel, itask, iwait,
                   failures, iret, pmeta, perrs>>

(***************************************************************************)
(* The resolver: resolverState, newResolverState, resolveQueue, resolveOne *)
(* and buildGraph.                                                         *)
(***************************************************************************)
VARIABLES
    meta,     \* the server: meta[f][v] = dependencies of version v of f
    roots,    \* the requirements: roots[f] = constraint of root f
    rstate,   \* the resolverState
    rpc,      \* position of resolveCollectionsInternal
    rret,     \* what it returned
    rseen     \* history: the resolverStates at the head of earlier iterations

resolveVars == <<meta, roots, rstate, rpc, rret, rseen>>

\* Number of collections the server knows.
NumFqdns == 2
\* Number of versions of each collection.
NumVersions == 2

Fqdns == 1..NumFqdns
Versions == 1..NumVersions

\* The source "root" of a constraint; the other sources are parent FQDNs.
RootSource == 0
Sources == Fqdns \cup {RootSource}

\* Constraint strings: "*", "<v", "=v", "" and an absent map entry.
AnyVersion == [op |-> "*", v |-> 0]
Lt(v) == [op |-> "<", v |-> v]
Eq(v) == [op |-> "=", v |-> v]
Empty == [op |-> "", v |-> 0]
NoDep == [op |-> "none", v |-> 0]

NoDeps == [d \in Fqdns |-> NoDep]

normalizeConstraint(value) == IF value.op \in {"*", ""} THEN Empty ELSE value

\* semver Constraints.Check
Check(c, version) ==
    CASE c.op = "<" -> version < c.v
      [] c.op = "=" -> version = c.v
      [] OTHER -> TRUE

constraintsFor(depConstraints, fqdn) ==
    {normalizeConstraint(depConstraints[fqdn][s]) :
        s \in {x \in Sources : depConstraints[fqdn][x] # NoDep}} \ {Empty}

\* exactVersionFromConstraints: a range constraint makes the set inexact,
\* two different exact versions are an error.  (With two different exact
\* versions and a range the outcome depends on the map order; the inputs
\* used here have at most one exact constraint per collection.)
exactVersionFromConstraints(constraints) ==
    LET exacts == {c.v : c \in {x \in constraints : x.op = "="}}
        ranges == {c \in constraints : c.op # "="}
    IN  IF Cardinality(exacts) > 1
          THEN [version |-> 0, exact |-> FALSE, err |-> "ConflictingExactVersions"]
          ELSE IF ranges # {} \/ exacts = {}
            THEN [version |-> 0, exact |-> FALSE, err |-> "nil"]
            ELSE [version |-> CHOOSE v \in exacts : TRUE, exact |-> TRUE, err |-> "nil"]

constraintsSatisfiedByVersion(version, constraints) ==
    \A c \in constraints : Check(c, version)

\* selectVersion: the highest version that satisfies the constraints, 0 when
\* there is none.
selectVersion(versions, constraints) ==
    LET ok == {v \in versions : \A c \in constraints : Check(c, v)}
    IN  IF ok = {} THEN 0 ELSE CHOOSE v \in ok : \A w \in ok : w <= v

\* resolveNonExactVersion: highest_version when it satisfies the constraints,
\* else the versions list.
resolveNonExactVersion(constraints) ==
    IF constraintsSatisfiedByVersion(NumVersions, constraints)
      THEN NumVersions
      ELSE selectVersion(Versions, constraints)

\* resolveOne: version and dependencies of one collection under the
\* constraints of the task.
resolveOne(m, fqdn, constraints) ==
    LET ex == exactVersionFromConstraints(constraints)
        version == IF ex.exact THEN ex.version ELSE resolveNonExactVersion(constraints)
    IN  IF ex.err # "nil"
          THEN [fqdn |-> fqdn, version |-> 0, deps |-> NoDeps, err |-> ex.err]
          ELSE IF version = 0
            THEN [fqdn |-> fqdn, version |-> 0, deps |-> NoDeps,
                  err |-> "NoVersionSatisfiesConstraints"]
            ELSE IF version \notin Versions
              THEN [fqdn |-> fqdn, version |-> 0, deps |-> NoDeps, err |-> "NotFound"]
              ELSE [fqdn |-> fqdn, version |-> version, deps |-> m[fqdn][version],
                    err |-> "nil"]

EmptyResolverState ==
    [resolved |-> [f \in Fqdns |-> 0],
     depsByParent |-> [f \in Fqdns |-> [has |-> FALSE, deps |-> NoDeps]],
     depConstraints |-> [f \in Fqdns |-> [s \in Sources |-> NoDep]],
     queue |-> {}]

\* addRootConstraint for every root (prepareRoots has rejected duplicate
\* roots, so no conflict is possible).
addRootConstraint(depConstraints, rts) ==
    [f \in Fqdns |-> [s \in Sources |->
        IF s = RootSource /\ rts[f] # NoDep /\ normalizeConstraint(rts[f]) # Empty
          THEN normalizeConstraint(rts[f])
          ELSE depConstraints[f][s]]]

RootSet(rts) == {f \in Fqdns : rts[f] # NoDep}

\* enqueueRoots
enqueueRoots(rts) ==
    [EmptyResolverState EXCEPT
        !.depConstraints = addRootConstraint(EmptyResolverState.depConstraints, rts),
        !.queue = RootSet(rts)]

\* applyDependencyConstraints: the dependencies whose constraint set changed.
changedDeps(st, res) ==
    LET oldDeps == st.depsByParent[res.fqdn].deps
    IN  {d \in Fqdns :
            \/ oldDeps[d] # NoDep /\ res.deps[d] = NoDep
                 /\ st.depConstraints[d][res.fqdn] # NoDep
            \/ res.deps[d] # NoDep /\ st.depConstraints[d][res.fqdn] # res.deps[d]}

applyDependencyConstraints(st, res) ==
    LET oldDeps == st.depsByParent[res.fqdn].deps
    IN  [d \in Fqdns |-> [s \in Sources |->
            IF s # res.fqdn THEN st.depConstraints[d][s]
            ELSE IF res.deps[d] # NoDep THEN res.deps[d]
            ELSE IF oldDeps[d] # NoDep THEN NoDep
            ELSE st.depConstraints[d][s]]]

\* applyResult with enqueueChanges
applyResult(st, res) ==
    [resolved |-> [st.resolved EXCEPT ![res.fqdn] = res.version],
     depsByParent |-> [st.depsByParent EXCEPT ![res.fqdn] = [has |-> TRUE, deps |-> res.deps]],
     depConstraints |-> applyDependencyConstraints(st, res),
     queue |-> st.queue \cup changedDeps(st, res)]

\* applyResults; the results of a batch touch different sources, so their
\* order does not matter.
RECURSIVE applyResults(_, _)
applyResults(st, results) ==
    IF results = {} THEN st
    ELSE LET res == CHOOSE r \in results : TRUE
         IN  applyResults(applyResult(st, res), results \ {res})

\* resolveBatch over the tasks that buildTasks makes of the queue.
resolveBatch(m, st) ==
    {resolveOne(m, f, constraintsFor(st.depConstraints, f)) : f \in st.queue}

\* collectReachable
RECURSIVE collectReachable(_, _)
collectReachable(reachable, depsByParent) ==
    LET next == reachable \cup
                  {d \in Fqdns : \E f \in reachable : depsByParent[f].deps[d] # NoDep}
    IN  IF next = reachable THEN reachable ELSE collectReachable(next, depsByParent)

pruneUnreachable(st, rts) ==
    LET reachable == collectReachable(RootSet(rts), st.depsByParent)
    IN  [st EXCEPT
           !.resolved = [f \in Fqdns |-> IF f \in reachable THEN st.resolved[f] ELSE 0],
           !.depsByParent = [f \in Fqdns |->
               IF f \in reachable THEN st.depsByParent[f]
               ELSE [has |-> FALSE, deps |-> NoDeps]]]

\* collection.key()
Key(fqdn, version) == <<fqdn, version>>

buildGraphFromDeps(resolved, depsByParent) ==
    LET parents == {f \in Fqdns : depsByParent[f].has}
        depsOf(f) == {d \in Fqdns : depsByParent[f].deps[d] # NoDep}
    IN  IF \E f \in parents : resolved[f] = 0
          THEN [err |-> "MissingResolvedParent", graph |-> <<>>]
          ELSE IF \E f \in parents : \E d \in depsOf(f) : resolved[d] = 0
            THEN [err |-> "MissingResolvedDependency", graph |-> <<>>]
            ELSE [err |-> "nil",
                  graph |-> [k \in {Key(f, resolved[f]) : f \in parents} |->
                               {Key(d, resolved[d]) : d \in depsOf(k[1])}]]

ensureGraphNodes(resolved, graph) ==
    [k \in DOMAIN graph \cup {Key(f, resolved[f]) : f \in {g \in Fqdns : resolved[g] # 0}} |->
        IF k \in DOMAIN graph THEN graph[k] ELSE {}]

\* buildGraph: what the full resolve returns.
buildGraph(st, rts) ==
    LET pruned == pruneUnreachable(st, rts)
        g == buildGraphFromDeps(pruned.resolved, pruned.depsByParent)
    IN  IF g.err # "nil"
          THEN [err |-> g.err, resolved |-> [f \in Fqdns |-> 0], graph |-> <<>>]
          ELSE [err |-> "nil", resolved |-> pruned.resolved,
                graph |-> ensureGraphNodes(pruned.resolved, g.graph)]

NoResolution == [err |-> "none", resolved |-> [f \in Fqdns |-> 0], graph |-> <<>>]

QuietResolveVars ==
    /\ meta = [f \in Fqdns |-> [v \in Versions |-> NoDeps]]
    /\ roots = [f \in Fqdns |-> IF f = 1 THEN AnyVersion ELSE NoDep]
    /\ rstate = EmptyResolverState
    /\ rpc = "new"
    /\ rret = NoResolution
    /\ rseen = {}

\* newResolverState
newResolverState ==
    /\ rpc = "new"
    /\ rstate' = enqueueRoots(roots)
    /\ rpc' = "queue"
    /\ UNCHANGED <<meta, roots, rret, rseen>>

\* resolveQueue, one iteration of the loop: buildTasks, resetQueue,
\* resolveBatch, applyResults; the first failed result is returned.
resolveQueue ==
    /\ rpc = "queue"
    /\ rstate.queue # {}
    /\ LET results == resolveBatch(meta, rstate)
           errs == {r.err : r \in {x \in results : x.err # "nil"}}
       IN  IF errs # {}
             THEN /\ \E e \in errs : rret' = [NoResolution EXCEPT !.err = e]
                  /\ rpc' = "returned"
                  /\ UNCHANGED <<rstate, rseen>>
             ELSE /\ rstate' = applyResults([rstate EXCEPT !.queue = {}], results)
                  /\ rseen' = rseen \cup {rstate}
                  /\ UNCHANGED <<rpc, rret>>
    /\ UNCHANGED <<meta, roots>>

\* resolveQueue returns nil on an empty queue; buildGraph and return.
resolveReturn ==
    /\ rpc = "queue"
    /\ rstate.queue = {}
    /\ rret' = buildGraph(rstate, roots)
    /\ rpc' = "returned"
    /\ UNCHANGED <<meta, roots, rstate, rseen>>

(***************************************************************************)
(* Successive runs of one project on one cache and one download path:      *)
(* install runs (resolveCollectionsInternal with the snapshot paths,        *)
(* installCollection, extractCollection, recordInstall, SaveStore) and      *)
(* cleanup runs (buildReachable, removeUnused).                             *)
(***************************************************************************)
VARIABLES
    reqs,         \* the requirements file: reqs[f] = constraint of root f
    registry,     \* the project is in the project registry
    persisted,    \* the store as saved in the cache directory
    st,           \* the store of the run in progress
    tree,         \* tree[f]: the install path of collection f
    infoDirs,     \* keys whose .info directory holds GALAXY.yml
    runpc,        \* position of the run in progress
    runResolved,  \* resolved map the resolver returned to the run
    runGraph,     \* graph the resolver returned to the run
    runPath,      \* the resolver path that produced them
    runLevels,    \* install levels of the run
    runLevel,     \* index of the level being installed
    runDone,      \* keys whose install worker has finished in this run
    runFailures,  \* failures of this run
    nruns,        \* number of runs started
    prev,         \* the last run, when it was a successful install with dependencies
    second,       \* whether the run in progress repeats such a run, and the store before it
    runBefore,    \* the persisted store when the last install run started
    runEnded,     \* how the last install run returned: "none", "nil" or "error"
    ici           \* progress of a sequence install, cleanup, install

runVars == <<reqs, registry, persisted, st, tree, infoDirs, runpc, runResolved,
             runGraph, runPath, runLevels, runLevel, runDone, runFailures, nruns,
             prev, second, runBefore, runEnded, ici>>

\* Largest number of runs in a behaviour.
MaxRuns == 3

\* The server of the runs: every version of collection f depends on
\* collection f + 1 with the constraint "*"; the last collection has no
\* dependency.  The project has the single root 1.
RunMeta ==
    [f \in Fqdns |-> [v \in Versions |->
        IF f < NumFqdns
          THEN [d \in Fqdns |-> IF d = f + 1 THEN AnyVersion ELSE NoDep]
          ELSE NoDeps]]

RunRootConstraints == {AnyVersion} \cup {Eq(v) : v \in Versions}
RunRoots(c) == [f \in Fqdns |-> IF f = 1 THEN c ELSE NoDep]

NoMarker == <<0, 0>>
NoTree == [exists |-> FALSE, manifest |-> 0, marker |-> NoMarker]

\* SHA-256 of the artifact of a key: different keys have different artifacts.
ArtifactSHA(key) == key

NoHash == <<>>

\* No successful install run to repeat.
NoPrev == [ok |-> FALSE, reqs |-> <<>>]
NotSecond == [active |-> FALSE, before |-> <<>>]

\* No sequence install, cleanup, install in progress.
NoSequence == [stage |-> "none", reqs |-> <<>>, noDeps |-> FALSE,
               persisted |-> <<>>, tree |-> <<>>, infoDirs |-> {}]
EmptyStore ==
    [Resolved |-> [f \in Fqdns |-> 0], Graph |-> <<>>,
     RequirementsHash |-> NoHash, Requirements |-> <<>>, Installed |-> <<>>]

\* buildRequirementsSpec: the normalized constraint of every root.
buildRequirementsSpec(rts) ==
    [f \in RootSet(rts) |->
        IF normalizeConstraint(rts[f]) = Empty THEN AnyVersion ELSE rts[f]]

\* buildRequirementsSpec and requirementsSignatureFromSpec: the hash is taken
\* of the normalized constraints of the roots.
requirementsSignatureFromSpec(rts) ==
    [f \in RootSet(rts) |->
        IF normalizeConstraint(rts[f]) = Empty THEN AnyVersion ELSE rts[f]]

constraintSatisfied(version, constraint) ==
    IF normalizeConstraint(constraint) = Empty THEN TRUE ELSE Check(constraint, version)

rootsMatchSnapshot(rts, resolved, graphSnapshot) ==
    \A f \in RootSet(rts) :
        /\ resolved[f] # 0
        /\ constraintSatisfied(resolved[f], rts[f])
        /\ Key(f, resolved[f]) \in DOMAIN graphSnapshot

filterGraphSnapshot(graphSnapshot, resolved) ==
    LET validKeys == {Key(f, resolved[f]) : f \in {g \in Fqdns : resolved[g] # 0}}
    IN  [k \in (DOMAIN graphSnapshot) \cap validKeys |-> graphSnapshot[k] \cap validKeys]

\* loadResolvedFromSnapshot: snapshotMatchesRequirements, loadSnapshotData,
\* rootsMatchSnapshot, filterGraphSnapshot.
loadResolvedFromSnapshot(s, rts) ==
    IF /\ s.RequirementsHash # NoHash
       /\ s.RequirementsHash = requirementsSignatureFromSpec(rts)
       /\ \E f \in Fqdns : s.Resolved[f] # 0
       /\ DOMAIN s.Graph # {}
       /\ rootsMatchSnapshot(rts, s.Resolved, s.Graph)
      THEN [ok |-> TRUE, resolved |-> s.Resolved,
            graph |-> filterGraphSnapshot(s.Graph, s.Resolved)]
      ELSE [ok |-> FALSE, resolved |-> s.Resolved, graph |-> <<>>]

\* resolveWithoutDeps: every root under the version its requirement names.
resolveWithoutDeps(rts) ==
    [err |-> "nil",
     resolved |-> [f \in Fqdns |-> IF f \in RootSet(rts) THEN rts[f].v ELSE 0],
     graph |-> [k \in {Key(f, rts[f].v) : f \in RootSet(rts)} |-> {}]]

\* resolveQueue as a function: the iteration of the loop from the roots, given
\* up after more batches than the dependency chain of RunMeta can need.
RECURSIVE runResolveQueue(_, _, _)
runResolveQueue(m, state, fuel) ==
    IF state.queue = {} THEN [err |-> "nil", state |-> state]
    ELSE IF fuel = 0 THEN [err |-> "unfinished", state |-> state]
    ELSE LET results == resolveBatch(m, state)
             errs == {r.err : r \in {x \in results : x.err # "nil"}}
         IN  IF errs # {}
               THEN [err |-> CHOOSE e \in errs : TRUE, state |-> state]
               ELSE runResolveQueue(m, applyResults([state EXCEPT !.queue = {}], results),
                                    fuel - 1)

\* newResolverState, resolveQueue, buildGraph
fullResolve(m, rts) ==
    LET q == runResolveQueue(m, enqueueRoots(rts), NumFqdns + 2)
    IN  IF q.err # "nil" THEN [NoResolution EXCEPT !.err = q.err]
        ELSE buildGraph(q.state, rts)

\* recordResolution: setResolvedAll, SetGraphSnapshot, SetMetaRequirements and
\* SetRequirements.
recordResolution(s, resolved, graph, reqHash) ==
    [s EXCEPT !.Resolved = resolved, !.Graph = graph, !.RequirementsHash = reqHash,
              !.Requirements = reqHash]

\* splitRootsByChange: the roots whose requirement equals the one of the
\* previous run, and the others.
unchangedRoots(rts, prevSpec) ==
    {f \in RootSet(rts) : f \in DOMAIN prevSpec /\ prevSpec[f] = buildRequirementsSpec(rts)[f]}

changedRoots(rts, prevSpec) == RootSet(rts) \ unchangedRoots(rts, prevSpec)

\* The requirements restricted to some of the roots.
OnlyRoots(rts, S) == [f \in Fqdns |-> IF f \in S THEN rts[f] ELSE NoDep]

loadSnapshotData(s) == (\E f \in Fqdns : s.Resolved[f] # 0) /\ DOMAIN s.Graph # {}

\* collectGraphKeysFromKeys: the keys reached from the given keys along the
\* dependency lists of the graph.
RECURSIVE collectGraphKeysFromKeys(_, _)
collectGraphKeysFromKeys(graph, visited) ==
    LET more == UNION {graph[k] : k \in visited \cap DOMAIN graph} \ visited
    IN  IF more = {} THEN visited ELSE collectGraphKeysFromKeys(graph, visited \cup more)

\* buildPreservedSnapshot with preservedRootKeys and addPreservedEntry: the
\* closure of the unchanged roots in the snapshot; it fails when a root is not
\* resolved, when a key of the closure is not a key of the graph snapshot or
\* when the resolved snapshot holds another version of its collection.
buildPreservedSnapshot(unchanged, resolvedSnap, graphSnap) ==
    LET rootKeys == {Key(f, resolvedSnap[f]) : f \in unchanged}
        preservedKeys == collectGraphKeysFromKeys(graphSnap, rootKeys)
    IN  IF /\ \A f \in unchanged : resolvedSnap[f] # 0
           /\ \A k \in preservedKeys : k \in DOMAIN graphSnap /\ resolvedSnap[k[1]] = k[2]
          THEN [ok |-> TRUE,
                resolved |-> [f \in Fqdns |->
                                IF Key(f, resolvedSnap[f]) \in preservedKeys
                                  THEN resolvedSnap[f] ELSE 0],
                graph |-> [k \in preservedKeys |-> graphSnap[k]]]
          ELSE [ok |-> FALSE, resolved |-> [f \in Fqdns |-> 0], graph |-> <<>>]

\* mergeResolvedGraphs without its two comparisons: the new closure wins.
mergeResolvedGraphsNoCheck(preservedResolved, preservedGraph, resolvedNew, graphNew) ==
    [ok |-> TRUE,
     resolved |-> [f \in Fqdns |->
                     IF resolvedNew[f] # 0 THEN resolvedNew[f] ELSE preservedResolved[f]],
     graph |-> [k \in DOMAIN preservedGraph \cup DOMAIN graphNew |->
                  IF k \in DOMAIN preservedGraph THEN preservedGraph[k] ELSE graphNew[k]]]
\* mergeResolvedGraphs: a collection with two versions or a key with two
\* dependency lists (sameDeps) makes the merge fail.
mergeResolvedGraphs(preservedResolved, preservedGraph, resolvedNew, graphNew) ==
    [ok |-> /\ \A f \in Fqdns :
                  (preservedResolved[f] # 0 /\ resolvedNew[f] # 0)
                      => preservedResolved[f] = resolvedNew[f]
            /\ \A k \in DOMAIN preservedGraph \cap DOMAIN graphNew :
                  preservedGraph[k] = graphNew[k],
     resolved |-> [f \in Fqdns |->
                     IF resolvedNew[f] # 0 THEN resolvedNew[f] ELSE preservedResolved[f]],
     graph |-> [k \in DOMAIN preservedGraph \cup DOMAIN graphNew |->
                  IF k \in DOMAIN preservedGraph THEN preservedGraph[k] ELSE graphNew[k]]]

\* expandGraphFromSnapshot with ensureResolvedFromSnapshot: every dependency
\* that is not a key of the merged graph is taken from the snapshot, with its
\* resolved entry; it fails when the snapshot does not have the key or when
\* the collection is resolved to another version.
RECURSIVE expandGraphFromSnapshot(_, _, _, _)
expandGraphFromSnapshot(mergedResolved, mergedGraph, resolvedSnap, graphSnap) ==
    LET missing == UNION {mergedGraph[k] : k \in DOMAIN mergedGraph} \ DOMAIN mergedGraph
        dep == CHOOSE d \in missing : TRUE
    IN  IF missing = {}
          THEN [ok |-> TRUE, resolved |-> mergedResolved, graph |-> mergedGraph]
        ELSE IF \/ \E d \in missing : d \notin DOMAIN graphSnap
                \/ \E d \in missing :
                      IF mergedResolved[d[1]] # 0 THEN mergedResolved[d[1]] # d[2]
                                                 ELSE resolvedSnap[d[1]] # d[2]
                \/ \E d, e \in missing : d[1] = e[1] /\ d[2] # e[2]
          THEN [ok |-> FALSE, resolved |-> mergedResolved, graph |-> mergedGraph]
          ELSE expandGraphFromSnapshot(
                   [mergedResolved EXCEPT ![dep[1]] = dep[2]],
                   [k \in DOMAIN mergedGraph \cup {dep} |->
                       IF k = dep THEN graphSnap[dep] ELSE mergedGraph[k]],
                   resolvedSnap, graphSnap)

validateMergedGraph(mergedResolved, mergedGraph) ==
    \A k \in DOMAIN mergedGraph : mergedResolved[k[1]] = k[2]

\* What tryIncrementalResolve returns when the reuse ends at a step.
NoReuse(step, err) ==
    [ok |-> FALSE, err |-> err, step |-> step,
     resolved |-> [f \in Fqdns |-> 0], graph |-> <<>>]

\* tryIncrementalResolveWithSnapshot after expandGraphFromSnapshot:
\* validateMergedGraph, and the merged closure is the result.
validateMerged(expanded) ==
    IF ~expanded.ok THEN NoReuse("expand", "nil")
    ELSE IF ~validateMergedGraph(expanded.resolved, expanded.graph)
      THEN NoReuse("validate", "nil")
      ELSE [ok |-> TRUE, err |-> "nil", step |-> "merged",
            resolved |-> expanded.resolved, graph |-> expanded.graph]

\* tryIncrementalResolveWithSnapshot after mergeResolvedGraphs.
expandMerged(s, merged) ==
    IF ~merged.ok THEN NoReuse("merge", "nil")
    ELSE validateMerged(expandGraphFromSnapshot(merged.resolved, merged.graph,
                                                s.Resolved, s.Graph))

\* tryIncrementalResolveWithSnapshot after the resolve of the changed roots.
mergeClosures(s, preserved, new) ==
    IF new.err # "nil" THEN NoReuse("resolve", new.err)
    ELSE expandMerged(s, mergeResolvedGraphs(preserved.resolved, preserved.graph,
                                             new.resolved, new.graph))

\* tryIncrementalResolveWithSnapshot after buildPreservedSnapshot: the changed
\* roots are resolved by resolveCollectionsInternal(changedRoots, false, false),
\* which neither reads nor records the snapshot.
resolveChanged(s, rts, changed, preserved) ==
    IF ~preserved.ok THEN NoReuse("preserved", "nil")
    ELSE mergeClosures(s, preserved, fullResolve(RunMeta, OnlyRoots(rts, changed)))

\* tryIncrementalResolveWithSnapshot.  The result names the step where the
\* reuse ended; recordResolution is left to the caller.
tryIncrementalResolveWithSnapshot(s, rts, unchanged, changed) ==
    IF ~loadSnapshotData(s) THEN NoReuse("no snapshot", "nil")
    ELSE resolveChanged(s, rts, changed,
                        buildPreservedSnapshot(unchanged, s.Resolved, s.Graph))

\* tryIncrementalResolve
tryIncrementalResolve(s, rts) ==
    IF DOMAIN s.Requirements = {} THEN NoReuse("no previous requirements", "nil")
    ELSE IF unchangedRoots(rts, s.Requirements) = {} \/ changedRoots(rts, s.Requirements) = {}
      THEN NoReuse("nothing to reuse", "nil")
      ELSE tryIncrementalResolveWithSnapshot(s, rts, unchangedRoots(rts, s.Requirements),
                                             changedRoots(rts, s.Requirements))

\* resolveCollectionsInternal after the snapshots: the full resolve with
\* state.resolveQueue and buildGraph, recorded when it succeeds.
resolveFull(s, rts, full) ==
    IF full.err # "nil"
      THEN [err |-> full.err, resolved |-> full.resolved, graph |-> full.graph,
            path |-> "full", store |-> s]
      ELSE [err |-> "nil", resolved |-> full.resolved, graph |-> full.graph,
            path |-> "full",
            store |-> recordResolution(s, full.resolved, full.graph,
                                       requirementsSignatureFromSpec(rts))]

\* resolveFromSnapshots after loadResolvedFromSnapshot did not apply: an error
\* of the incremental reuse is returned, its result is recorded and returned,
\* and otherwise the roots are resolved in full.
resolveIncremental(s, rts, incr) ==
    IF incr.err # "nil"
      THEN [err |-> incr.err, resolved |-> incr.resolved, graph |-> incr.graph,
            path |-> "incremental", store |-> s]
    ELSE IF incr.ok
      THEN [err |-> "nil", resolved |-> incr.resolved, graph |-> incr.graph,
            path |-> "incremental",
            store |-> recordResolution(s, incr.resolved, incr.graph,
                                       requirementsSignatureFromSpec(rts))]
      ELSE resolveFull(s, rts, fullResolve(RunMeta, rts))

\* resolveFromSnapshots: the snapshot of the same requirements is returned as
\* it is.
resolveFromSnapshots(s, rts, snap) ==
    IF snap.ok
      THEN [err |-> "nil", resolved |-> snap.resolved, graph |-> snap.graph,
            path |-> "snapshot", store |-> s]
      ELSE resolveIncremental(s, rts, tryIncrementalResolve(s, rts))

\* resolveWithoutDeps with record = true.
recordWithoutDeps(s, rts, nd) ==
    [err |-> "nil", resolved |-> nd.resolved, graph |-> nd.graph, path |-> "nodeps",
     store |-> recordResolution(s, nd.resolved, nd.graph, requirementsSignatureFromSpec(rts))]

\* resolveCollectionsInternal(roots, allowSnapshot = true, record = true):
\* the snapshot, then the incremental reuse, then the full resolve.
resolveCollectionsInternal(s, rts, noDeps) ==
    IF noDeps
      THEN recordWithoutDeps(s, rts, resolveWithoutDeps(rts))
      ELSE resolveFromSnapshots(s, rts, loadResolvedFromSnapshot(s, rts))

QuietRunVars ==
    /\ reqs = RunRoots(AnyVersion)
    /\ registry = FALSE
    /\ persisted = EmptyStore
    /\ st = EmptyStore
    /\ tree = [f \in Fqdns |-> NoTree]
    /\ infoDirs = {}
    /\ runpc = "idle"
    /\ runResolved = [f \in Fqdns |-> 0]
    /\ runGraph = <<>>
    /\ runPath = "none"
    /\ runLevels = <<>>
    /\ runLevel = 1
    /\ runDone = {}
    /\ runFailures = 0
    /\ nruns = 0
    /\ prev = NoPrev
    /\ second = NotSecond
    /\ runBefore = EmptyStore
    /\ runEnded = "none"
    /\ ici = NoSequence

\* The user edits the requirements file between two runs.
editRequirements ==
    /\ runpc = "idle"
    /\ \E c \in RunRootConstraints : reqs' = RunRoots(c) /\ reqs' # reqs
    /\ UNCHANGED <<registry, persisted, st, tree, infoDirs, runpc, runResolved,
                   runGraph, runPath, runLevels, runLevel, runDone, runFailures, nruns,
                   prev, second, runBefore, runEnded, ici>>

\* runInstall up to installLevels: initInstall (LoadStore, RecordProject) and
\* prepareInstallPlan (resolve, buildInstallLevels).  no_deps needs roots
\* with an exact version here.
prepareInstallPlan ==
    /\ runpc = "idle"
    /\ nruns < MaxRuns
    /\ nruns' = nruns + 1
    /\ registry' = TRUE
    /\ runBefore' = persisted
    /\ \E noDeps \in BOOLEAN :
         /\ noDeps => \A f \in RootSet(reqs) : reqs[f].op = "="
         /\ LET r == resolveCollectionsInternal(persisted, reqs, noDeps)
                lv == buildInstallLevels(r.graph)
            IN  IF r.err # "nil" \/ lv.err # "nil"
                  THEN /\ runpc' = "idle"
                       /\ prev' = NoPrev
                       /\ second' = NotSecond
                       /\ runEnded' = "error"
                       /\ ici' = NoSequence
                       /\ UNCHANGED <<st, runResolved, runGraph, runPath, runLevels,
                                      runLevel, runDone, runFailures>>
                  ELSE /\ st' = r.store
                       /\ prev' = [ok |-> ~noDeps, reqs |-> reqs]
                       /\ second' = [active |-> prev.ok /\ prev.reqs = reqs /\ ~noDeps,
                                     before |-> persisted]
                       /\ runEnded' = "none"
                       /\ ici' = IF ici.stage = "cleaned" /\ ici.reqs = reqs
                                      /\ ici.noDeps = noDeps
                                   THEN [ici EXCEPT !.stage = "again"]
                                   ELSE [NoSequence EXCEPT !.stage = "first", !.reqs = reqs,
                                                           !.noDeps = noDeps]
                       /\ runResolved' = r.resolved
                       /\ runGraph' = r.graph
                       /\ runPath' = r.path
                       /\ runLevels' = lv.levels
                       /\ runLevel' = 1
                       /\ runDone' = {}
                       /\ runFailures' = 0
                       /\ runpc' = IF lv.levels = <<>> THEN "finalize" ELSE "install"
    /\ UNCHANGED <<reqs, persisted, tree, infoDirs>>

\* buildCollectionsMap
Collections(resolved) == {Key(f, resolved[f]) : f \in {g \in Fqdns : resolved[g] # 0}}

canSkipInstall(s, key) ==
    /\ key \in DOMAIN s.Installed
    /\ s.Installed[key].InstallPath = key[1]
    /\ tree[key[1]].exists
    /\ tree[key[1]].marker = s.Installed[key].ArtifactSHA256
    /\ key \in infoDirs

\* extractCollection that succeeds: nothing to do when the marker of the
\* artifact is there, else RemoveAll, MkdirAll, ExtractTarGz and the marker.
extractCollection(key) ==
    IF tree[key[1]].exists /\ tree[key[1]].marker = ArtifactSHA(key)
      THEN tree
      ELSE [tree EXCEPT ![key[1]] =
              [exists |-> TRUE, manifest |-> key[2], marker |-> ArtifactSHA(key)]]

\* recordInstall: SetInstalled (InstalledAt is the time of the run) and, the
\* dependency list never being nil in installLevels, SetGraph.
recordInstall(s, key, depKeys) ==
    [s EXCEPT
       !.Installed = [k \in (DOMAIN s.Installed) \cup {key} |->
                        IF k = key
                          THEN [InstallPath |-> key[1], ArtifactSHA256 |-> ArtifactSHA(key),
                                InstalledAt |-> nruns]
                          ELSE s.Installed[k]],
       !.Graph = [k \in (DOMAIN s.Graph) \cup {key} |->
                        IF k = key THEN depKeys ELSE s.Graph[k]]]

\* The worker of one key of the level: installCollection skips, fails in
\* prepareInstall (metadata, download, checksum), fails in ExtractTarGz after
\* the RemoveAll, or extracts, writes GALAXY.yml and records the install.
\* GALAXY.yml is not written when the metadata is nil (cached artifact and
\* ErrMetadataUnavailable) or when writeGalaxyInfo fails, which is only a
\* warning: the install is recorded all the same.
\* (installLevels returns ErrMissingCollection for a key that is not in the
\* collections map; the graph keys the resolver returns are all in the map.)
installKey(key) ==
    /\ runpc = "install"
    /\ key \in runLevels[runLevel] \ runDone
    /\ key \in Collections(runResolved)
    /\ runDone' = runDone \cup {key}
    /\ IF canSkipInstall(st, key)
         THEN UNCHANGED <<st, tree, infoDirs, runFailures>>
         ELSE \E outcome \in {"ok", "prepare", "extract"} :
                CASE outcome = "prepare" ->
                       /\ runFailures' = runFailures + 1
                       /\ UNCHANGED <<st, tree, infoDirs>>
                  [] outcome = "extract" ->
                       /\ ~(tree[key[1]].exists /\ tree[key[1]].marker = ArtifactSHA(key))
                       /\ tree' = [tree EXCEPT ![key[1]] =
                                     [exists |-> TRUE, manifest |-> 0, marker |-> NoMarker]]
                       /\ runFailures' = runFailures + 1
                       /\ UNCHANGED <<st, infoDirs>>
                  [] outcome = "ok" ->
                       /\ tree' = extractCollection(key)
                       /\ \E written \in BOOLEAN :
                            infoDirs' = IF written THEN infoDirs \cup {key} ELSE infoDirs
                       /\ st' = recordInstall(st, key,
                                   IF key \in DOMAIN runGraph THEN runGraph[key] ELSE {})
                       /\ UNCHANGED runFailures
    /\ UNCHANGED <<reqs, registry, persisted, runpc, runResolved, runGraph, runPath,
                   runLevels, runLevel, nruns, prev, second, runBefore, runEnded, ici>>

\* installLevels after wg.Wait(): stop at failures, else the next level.
runLevelDone ==
    /\ runpc = "install"
    /\ runLevels[runLevel] \subseteq runDone
    /\ IF runFailures > 0 \/ runLevel = Len(runLevels)
         THEN runpc' = "finalize" /\ UNCHANGED runLevel
         ELSE runpc' = "install" /\ runLevel' = runLevel + 1
    /\ UNCHANGED <<reqs, registry, persisted, st, tree, infoDirs, runResolved, runGraph,
                   runPath, runLevels, runDone, runFailures, nruns, prev, second,
                   runBefore, runEnded, ici>>

\* finalizeInstall: SaveStore, with or without failures; the run was
\* successful when nothing failed.
finalizeRun ==
    /\ runpc = "finalize"
    /\ persisted' = st
    /\ runpc' = "idle"
    /\ prev' = [prev EXCEPT !.ok = prev.ok /\ runFailures = 0]
    /\ runEnded' = IF runFailures = 0 THEN "nil" ELSE "error"
    /\ ici' = IF runFailures # 0 THEN NoSequence
              ELSE IF ici.stage = "again" THEN [ici EXCEPT !.stage = "done"]
              ELSE [ici EXCEPT !.stage = "installed", !.persisted = st, !.tree = tree,
                               !.infoDirs = infoDirs]
    /\ UNCHANGED <<reqs, registry, st, tree, infoDirs, runResolved, runGraph, runPath,
                   runLevels, runLevel, runDone, runFailures, nruns, second, runBefore>>

\* scanInstalledCollections: the keys of the MANIFEST.json files on disk.
scanInstalledCollections == {Key(f, tree[f].manifest) : f \in {g \in Fqdns : tree[g].manifest # 0}}

\* selectInstalled
selectInstalled(index, fqdn, constraint) ==
    {k \in index : k[1] = fqdn /\ constraintSatisfied(k[2], constraint)}

\* markReachable from a set of keys, along the dependencies of the manifests.
RECURSIVE markReachable(_, _)
markReachable(reachable, index) ==
    LET next == reachable \cup
                  UNION {selectInstalled(index, d, RunMeta[k[1]][k[2]][d]) :
                           <<k, d>> \in {x \in reachable \X Fqdns :
                                           RunMeta[x[1][1]][x[1][2]][x[2]] # NoDep}}
    IN  IF next = reachable THEN reachable ELSE markReachable(next, index)

buildReachable(index) ==
    markReachable(UNION {selectInstalled(index, f, reqs[f]) : f \in RootSet(reqs)}, index)

\* A cleanup run: initCleanup, buildReachable, removeUnused (removeInstalled,
\* DeleteInstalled, DeleteGraph), finalizeCleanup with its SaveStore.
cleanupStart ==
    /\ runpc = "idle"
    /\ nruns < MaxRuns
    /\ registry
    /\ nruns' = nruns + 1
    /\ LET index == scanInstalledCollections
           unused == index \ buildReachable(index)
           gone == {k[1] : k \in unused}
       IN  /\ tree' = [f \in Fqdns |-> IF f \in gone THEN NoTree ELSE tree[f]]
           /\ infoDirs' = infoDirs \ unused
           /\ persisted' =
                [persisted EXCEPT
                   !.Installed = [k \in (DOMAIN persisted.Installed) \ unused |->
                                    persisted.Installed[k]],
                   !.Graph = [k \in (DOMAIN persisted.Graph) \ unused |-> persisted.Graph[k]]]
    /\ prev' = NoPrev
    /\ second' = NotSecond
    /\ ici' = IF ici.stage = "installed" /\ ici.reqs = reqs
                THEN [ici EXCEPT !.stage = "cleaned"]
                ELSE NoSequence
    /\ runEnded' = "none"
    /\ UNCHANGED <<reqs, registry, st, runpc, runResolved, runGraph, runPath, runLevels,
                   runLevel, runDone, runFailures, runBefore>>

(***************************************************************************)
(* Control flow of one run with respect to the cache lock: runInstall with *)
(* initInstall (package collections) and cleanup.Start with initCleanup    *)
(* (package cleanup).  The deferred calls of the run function are a stack  *)
(* that is executed when the function returns.                             *)
(***************************************************************************)
VARIABLES
    ccmd,        \* "none", "install" or "cleanup": the command of the run
    cpc,         \* position of the run
    cproject,    \* the project (directory of the requirements file) of the run
    cclear,      \* cfg.ClearCache
    cdefers,     \* deferred calls registered so far, the last one first
    cacquired,   \* backend.Lock returned a release closure in this run
    creleases,   \* number of invocations of the release closure in this run
    copen,       \* the backend is open
    cregistry,   \* projects recorded in the project registry
    ccanceled,   \* a signal canceled the context of the run
    cret,        \* "none", "ok" or "err": what the run returned
    cnruns       \* number of runs started

ctlVars == <<ccmd, cpc, cproject, cclear, cdefers, cacquired, creleases, copen,
             cregistry, ccanceled, cret, cnruns>>

\* Number of projects that use the cache directory, and of runs in a row.
MaxProjects == 2
MaxCtlRuns == 2

Projects == 1..MaxProjects

QuietCtlVars ==
    /\ ccmd = "none"
    /\ cpc = "idle"
    /\ cproject = 1
    /\ cclear = FALSE
    /\ cdefers = <<>>
    /\ cacquired = FALSE
    /\ creleases = 0
    /\ copen = FALSE
    /\ cregistry = {}
    /\ ccanceled = FALSE
    /\ cret = "none"
    /\ cnruns = 0

\* The run function returns err (or nil): its deferred calls run next.
ctlReturn(ret) ==
    /\ cret' = ret
    /\ cpc' = "defers"

\* _ = releaseLock(); _ = backend.Close(ctx); return nil, err: the error
\* paths of initInstall and initCleanup after the lock was acquired.
ctlInitFail ==
    /\ creleases' = creleases + 1
    /\ copen' = FALSE
    /\ ctlReturn("err")

\* A new process starts an install or a cleanup run.
startRun ==
    /\ cpc = "idle" /\ cnruns < MaxCtlRuns
    /\ ccmd' \in {"install", "cleanup"}
    /\ cproject' \in Projects
    /\ cclear' \in BOOLEAN
    /\ cpc' = "open"
    /\ cdefers' = <<>>
    /\ cacquired' = FALSE
    /\ creleases' = 0
    /\ copen' = FALSE
    /\ ccanceled' = FALSE
    /\ cret' = "none"
    /\ cnruns' = cnruns + 1
    /\ UNCHANGED cregistry

\* SIGHUP/SIGINT/SIGTERM/SIGQUIT: signal.NotifyContext cancels the context;
\* the run goes on and the calls that use the context fail.
signalCancel ==
    /\ cpc \notin {"idle", "defers"} /\ ~ccanceled
    /\ ccanceled' = TRUE
    /\ UNCHANGED <<ccmd, cpc, cproject, cclear, cdefers, cacquired, creleases,
                   copen, cregistry, cret, cnruns>>

\* initInstall / initCleanup: backend.Open.
backendOpen ==
    /\ cpc = "open"
    /\ \E ok \in BOOLEAN :
         IF ok THEN /\ copen' = TRUE
                    /\ cpc' = "lock"
                    /\ UNCHANGED cret
               ELSE /\ ctlReturn("err")
                    /\ UNCHANGED copen
    /\ UNCHANGED <<ccmd, cproject, cclear, cdefers, cacquired, creleases,
                   cregistry, ccanceled, cnruns>>

\* initInstall / initCleanup: backend.Lock; on an error the backend is closed.
backendLock ==
    /\ cpc = "lock"
    /\ \E ok \in BOOLEAN :
         IF ok THEN /\ cacquired' = TRUE
                    /\ cpc' = "load"
                    /\ UNCHANGED <<copen, cret>>
               ELSE /\ copen' = FALSE
                    /\ ctlReturn("err")
                    /\ UNCHANGED cacquired
    /\ UNCHANGED <<ccmd, cproject, cclear, cdefers, creleases, cregistry,
                   ccanceled, cnruns>>

\* initInstall / initCleanup: backend.LoadStore.
backendLoadStore ==
    /\ cpc = "load"
    /\ \E ok \in BOOLEAN :
         IF ok THEN /\ cpc' = IF ccmd = "cleanup" THEN "registry"
                              ELSE IF cclear THEN "clear" ELSE "record"
                    /\ UNCHANGED <<creleases, copen, cret>>
               ELSE ctlInitFail
    /\ UNCHANGED <<ccmd, cproject, cclear, cdefers, cacquired, cregistry,
                   ccanceled, cnruns>>

\* initInstall with cfg.ClearCache: st.ClearCaches and backend.ClearFiles.
backendClearFiles ==
    /\ cpc = "clear"
    /\ \E ok \in BOOLEAN :
         IF ok THEN /\ cpc' = "record"
                    /\ UNCHANGED <<creleases, copen, cret>>
               ELSE ctlInitFail
    /\ UNCHANGED <<ccmd, cproject, cclear, cdefers, cacquired, cregistry,
                   ccanceled, cnruns>>

\* initInstall: backend.RecordProject, whose failure is only a warning; then
\* runInstall registers its two deferred calls.
backendRecordProject ==
    /\ cpc = "record"
    /\ \E ok \in BOOLEAN :
         cregistry' = IF ok THEN cregistry \cup {cproject} ELSE cregistry
    /\ cdefers' = <<"close", "release">>
    /\ cpc' = "plan"
    /\ UNCHANGED <<ccmd, cproject, cclear, cacquired, creleases, copen,
                   ccanceled, cret, cnruns>>

\* runInstall: prepareInstallPlan returns a plan or an error.
runInstallPlan ==
    /\ cpc = "plan"
    /\ \E ok \in BOOLEAN :
         IF ok THEN cpc' = "levels" /\ UNCHANGED cret
               ELSE ctlReturn("err")
    /\ UNCHANGED <<ccmd, cproject, cclear, cdefers, cacquired, creleases, copen,
                   cregistry, ccanceled, cnruns>>

\* runInstall: installLevels returns the failure count or
\* ErrMissingCollection.
runInstallLevels ==
    /\ cpc = "levels"
    /\ \E ok \in BOOLEAN :
         IF ok THEN cpc' = "finalize" /\ UNCHANGED cret
               ELSE ctlReturn("err")
    /\ UNCHANGED <<ccmd, cproject, cclear, cdefers, cacquired, creleases, copen,
                   cregistry, ccanceled, cnruns>>

\* runInstall: return finalizeInstall(...), nil or an error.
runInstallFinalize ==
    /\ cpc = "finalize"
    /\ \E ret \in {"ok", "err"} : ctlReturn(ret)
    /\ UNCHANGED <<ccmd, cproject, cclear, cdefers, cacquired, creleases, copen,
                   cregistry, ccanceled, cnruns>>

\* initCleanup: backend.LoadProjectRegistry; then cleanup.Start returns nil
\* when no project is recorded, before it registers its deferred calls.
cleanupLoadRegistry ==
    /\ cpc = "registry"
    /\ \E ok \in BOOLEAN :
         IF ~ok THEN /\ ctlInitFail
                     /\ UNCHANGED cdefers
         ELSE IF cregistry = {}
           THEN /\ ctlReturn("ok")
                /\ UNCHANGED <<cdefers, creleases, copen>>
           ELSE /\ cdefers' = <<"close", "release">>
                /\ cpc' = "reach"
                /\ UNCHANGED <<creleases, copen, cret>>
    /\ UNCHANGED <<ccmd, cproject, cclear, cacquired, cregistry, ccanceled, cnruns>>

\* cleanup.Start: buildReachable returns the reachable set or an error.
cleanupReachable ==
    /\ cpc = "reach"
    /\ \E ok \in BOOLEAN :
         IF ok THEN cpc' = "remove" /\ UNCHANGED cret
               ELSE ctlReturn("err")
    /\ UNCHANGED <<ccmd, cproject, cclear, cdefers, cacquired, creleases, copen,
                   cregistry, ccanceled, cnruns>>

\* cleanup.Start: removeUnused, then return finalizeCleanup(...).
cleanupRemoveUnused ==
    /\ cpc = "remove"
    /\ \E ret \in {"ok", "err"} : ctlReturn(ret)
    /\ UNCHANGED <<ccmd, cproject, cclear, cdefers, cacquired, creleases, copen,
                   cregistry, ccanceled, cnruns>>

\* The deferred calls of the returning function run, the last registered
\* first: backend.Close, then the release closure; the process then exits.
runDeferred ==
    /\ cpc = "defers"
    /\ IF cdefers = <<>>
         THEN /\ cpc' = "idle"
              /\ UNCHANGED <<cdefers, creleases, copen>>
         ELSE /\ cdefers' = Tail(cdefers)
              /\ creleases' = IF Head(cdefers) = "release" THEN creleases + 1 ELSE creleases
              /\ copen' = IF Head(cdefers) = "close" THEN FALSE ELSE copen
              /\ UNCHANGED cpc
    /\ UNCHANGED <<ccmd, cproject, cclear, cacquired, cregistry, ccanceled, cret, cnruns>>

\* The run has returned and its deferred calls have run.
Returned == ccmd # "none" /\ cpc = "idle"

(***************************************************************************)
(* Lock of the S3 backend (package s3cache: acquireLock,                   *)
(* handleExistingLock, putLock, lockExpired).  The lock is one object; a   *)
(* PUT with If-None-Match: * creates it only when it does not exist.       *)
(***************************************************************************)
VARIABLES
    s3lock,      \* the lock object: NoObject or [owner, time]
    s3now,       \* the clock, in units of the lease TTL
    s3pc,        \* s3pc[p]: position of process p in acquireLock
    s3put        \* s3put[p]: the time of the lock object p created, or -1

s3Vars == <<s3lock, s3now, s3pc, s3put>>

\* Last clock value.
MaxTime == 3

\* lockTTL (10 minutes) in clock units.
lockTTL == 1

NoObject == [owner |-> -1, time |-> -1]

QuietS3Vars ==
    /\ s3lock = NoObject
    /\ s3now = 0
    /\ s3pc = [p \in Procs |-> "put"]
    /\ s3put = [p \in Procs |-> -1]

\* lockExpired: time.Since(timestamp) > ttl, on the timestamp of the object
\* metadata.
lockExpired(headers, ttl) == s3now - headers.time > ttl

\* putLock: the conditional PUT; TRUE when the object was created.
putLock(p) ==
    IF s3lock = NoObject
      THEN /\ s3lock' = [owner |-> p, time |-> s3now]
           /\ s3put' = [s3put EXCEPT ![p] = s3now]
      ELSE UNCHANGED <<s3lock, s3put>>

\* acquireLock: the first putLock; a failed precondition leads to
\* handleExistingLock.
acquireLock(p) ==
    /\ s3pc[p] = "put"
    /\ putLock(p)
    /\ s3pc' = [s3pc EXCEPT ![p] = IF s3lock = NoObject THEN "held" ELSE "head"]
    /\ UNCHANGED s3now

\* handleExistingLock up to the expiry test: headObject, then lockExpired on
\* the headers; a missing object leads to the second putLock, a lock that is
\* not expired to errS3LockAlreadyIsExists.
headObject(p) ==
    /\ s3pc[p] = "head"
    /\ s3pc' = [s3pc EXCEPT ![p] =
                  IF s3lock = NoObject THEN "reput"
                  ELSE IF lockExpired(s3lock, lockTTL) THEN "delete"
                  ELSE "failed"]
    /\ UNCHANGED <<s3lock, s3now, s3put>>

\* handleExistingLock: release() of the lock judged expired, a DELETE of the
\* lock key.
deleteExpired(p) ==
    /\ s3pc[p] = "delete"
    /\ s3lock' = NoObject
    /\ s3pc' = [s3pc EXCEPT ![p] = "reput"]
    /\ UNCHANGED <<s3now, s3put>>

\* handleExistingLock: the putLock after the delete (or after a head that
\* found no object); a failed precondition is errS3LockAlreadyIsExists.
putLockAgain(p) ==
    /\ s3pc[p] = "reput"
    /\ putLock(p)
    /\ s3pc' = [s3pc EXCEPT ![p] = IF s3lock = NoObject THEN "held" ELSE "failed"]
    /\ UNCHANGED s3now

\* The release closure of a holder: deleteObject(lockKey).
s3Release(p) ==
    /\ s3pc[p] = "held"
    /\ s3lock' = NoObject
    /\ s3pc' = [s3pc EXCEPT ![p] = "released"]
    /\ UNCHANGED <<s3now, s3put>>

\* Time passes.
Tick ==
    /\ s3now < MaxTime
    /\ s3now' = s3now + 1
    /\ UNCHANGED <<s3lock, s3pc, s3put>>

\* Process p returned from acquireLock with the release closure, has not
\* released, and the lease of the object it created has not expired.
S3Holds(p) == s3pc[p] = "held" /\ s3now - s3put[p] <= lockTTL

(***************************************************************************)
(* buildInstallLevels applied to an arbitrary graph: keys with any         *)
(* dependency sets, cycles and dependencies that are not keys included.    *)
(* Dependency lists are sets here: buildGraphFromDeps fills them from the  *)
(* keys of a map, and buildDependencyIndex counts a repeated dependency    *)
(* once in indegree and once in reverse for every occurrence.              *)
(***************************************************************************)
VARIABLES
    lgraph,      \* the graph passed to buildInstallLevels
    lvpc,         \* "input" or "done"
    lres         \* the result: [err, levels]

levelVars == <<lgraph, lvpc, lres>>

\* Number of nodes of the graphs.
NumNodes == 3

Nodes == 1..NumNodes

\* Every graph over the nodes: a function from a set of keys to sets of nodes.
Graphs == UNION {[D -> SUBSET Nodes] : D \in SUBSET Nodes}

NoLevels == [err |-> "none", levels |-> <<>>]

QuietLevelVars ==
    /\ lgraph = <<>>
    /\ lvpc = "input"
    /\ lres = NoLevels

\* levels, err := buildInstallLevels(graph)
callBuildInstallLevels ==
    /\ lvpc = "input"
    /\ lres' = buildInstallLevels(lgraph)
    /\ lvpc' = "done"
    /\ UNCHANGED lgraph

\* The dependencies of node n in the graph (none for a node that is only a
\* dependency).
DepsOf(graph, n) == IF n \in DOMAIN graph THEN graph[n] ELSE {}

\* The nodes reachable from the set S by one or more edges.
RECURSIVE ReachableFrom(_, _)
ReachableFrom(graph, S) ==
    IF UNION {DepsOf(graph, n) : n \in S} \subseteq S
      THEN S
      ELSE ReachableFrom(graph, S \cup UNION {DepsOf(graph, n) : n \in S})

\* The graph has a directed cycle: some node reaches itself.
HasCycle(graph) ==
    \E n \in DOMAIN graph : n \in ReachableFrom(graph, graph[n])

\* The index of the level that holds node n.
LevelOf(levels, n) == CHOOSE i \in 1..Len(levels) : n \in levels[i]

(***************************************************************************)
(* resolveCollectionsInternal applied to a store that holds the snapshot   *)
(* of an earlier run: any resolved map, any graph over its keys (a key     *)
(* does not depend on itself) and the requirements of the earlier run,     *)
(* which agree with the current ones on some of the roots.  The server is  *)
(* RunMeta.                                                                *)
(***************************************************************************)
VARIABLES
    qsnap,       \* the store before the call
    qroots,      \* the roots of the requirements file
    qpc,         \* "input" or "done"
    qret         \* the result: [err, resolved, graph, path, store]

incrVars == <<qsnap, qroots, qpc, qret>>

NoIncrResult ==
    [err |-> "none", resolved |-> [f \in Fqdns |-> 0], graph |-> <<>>, path |-> "none",
     store |-> EmptyStore]

QuietIncrVars ==
    /\ qsnap = EmptyStore
    /\ qroots = RunRoots(AnyVersion)
    /\ qpc = "input"
    /\ qret = NoIncrResult

\* The requirements files: every collection is a root with some constraint
\* or is not a root.
IncrRoots == [Fqdns -> RunRootConstraints \cup {NoDep}]

\* The graphs over a set of keys.
IncrGraphs(K) ==
    {g \in UNION {[D -> SUBSET K] : D \in SUBSET K} : \A k \in DOMAIN g : k \notin g[k]}

\* The store left by an earlier run whose requirements were those of the
\* roots in U, unchanged since.
IncrSnapshot(rts, U, resolved, graph) ==
    [EmptyStore EXCEPT !.Resolved = resolved, !.Graph = graph,
                       !.RequirementsHash = requirementsSignatureFromSpec(OnlyRoots(rts, U)),
                       !.Requirements = buildRequirementsSpec(OnlyRoots(rts, U))]

\* resolved, graph, err := resolveCollectionsInternal(ctx, deps, roots, true, true)
callResolveCollections ==
    /\ qpc = "input"
    /\ qret' = resolveCollectionsInternal(qsnap, qroots, FALSE)
    /\ qpc' = "done"
    /\ UNCHANGED <<qsnap, qroots>>

\* The two closures that tryIncrementalResolveWithSnapshot merges.
IncrPreserved ==
    buildPreservedSnapshot(unchangedRoots(qroots, qsnap.Requirements),
                           qsnap.Resolved, qsnap.Graph)

IncrNew == fullResolve(RunMeta, OnlyRoots(qroots, changedRoots(qroots, qsnap.Requirements)))

\* The call reaches the merge of incremental reuse.
IncrementalReuse ==
    /\ ~loadResolvedFromSnapshot(qsnap, qroots).ok
    /\ unchangedRoots(qroots, qsnap.Requirements) # {}
    /\ changedRoots(qroots, qsnap.Requirements) # {}
    /\ loadSnapshotData(qsnap)
    /\ IncrPreserved.ok
    /\ IncrNew.err = "nil"

\* The closures give two versions to a collection.
VersionsDisagree ==
    \E f \in Fqdns :
        /\ IncrPreserved.resolved[f] # 0
        /\ IncrNew.resolved[f] # 0
        /\ IncrPreserved.resolved[f] # IncrNew.resolved[f]

\* The closures give two dependency lists to a key.
DepsDisagree ==
    \E k \in DOMAIN IncrPreserved.graph \cap DOMAIN IncrNew.graph :
        IncrPreserved.graph[k] # IncrNew.graph[k]

(***************************************************************************)
(* The download of one collection: the prefetch task of its key, when the  *)
(* key is registered, and the install worker that waits for it.  Both use  *)
(* downloadCollectionToCache.  The bytes of a download either have the     *)
(* SHA-256 of the release ("match") or not ("differ"); the server declares *)
(* the SHA-256 of the release or declares none.  The artifact store is the *)
(* local one: Commit renames the staging file.                             *)
(***************************************************************************)
VARIABLES
    dcfg,        \* [sha: the server declares a sha256, noCache: cfg.NoCache]
    dstore,      \* the artifact of the key in the artifact store: "none" or its bytes
    ddl,         \* the downloadCollectionToCache call of each path: [pc, bytes, err]
    dstaging,    \* whether the staging file of the call exists
    dpre,        \* the prefetch task: [pc, meta, err]
    dinst,       \* the install worker: [pc, meta, syncMeta, bytes, err]
    dmarker,     \* the bytes the .extract-done marker of the install path was made from
    dinstalled,  \* the bytes the Installed entry of the key was made from
    dfailures    \* the failure counter of installLevels

dlVars == <<dcfg, dstore, ddl, dstaging, dpre, dinst, dmarker, dinstalled, dfailures>>

Paths == {"prefetch", "sync"}

NoDownload == [pc |-> "idle", bytes |-> "none", err |-> "nil"]
NoPrefetch == [pc |-> "none", meta |-> FALSE, err |-> "nil"]
NewWorker == [pc |-> "wait", meta |-> FALSE, syncMeta |-> "none", bytes |-> "none", err |-> "nil"]

QuietDlVars ==
    /\ dcfg = [sha |-> TRUE, noCache |-> FALSE]
    /\ dstore = "none"
    /\ ddl = [p \in Paths |-> NoDownload]
    /\ dstaging = [p \in Paths |-> FALSE]
    /\ dpre = NoPrefetch
    /\ dinst = NewWorker
    /\ dmarker = "none"
    /\ dinstalled = "none"
    /\ dfailures = 0

\* useCache of the call: true on the prefetch path, !cfg.NoCache in fetchArtifact.
useCache(p) == p = "prefetch" \/ ~dcfg.noCache

\* The caller of the path is inside downloadCollectionToCache.
Downloading(p) == IF p = "prefetch" THEN dpre.pc = "download" ELSE dinst.pc = "download"

\* prefetchOne up to the download: loadCollectionMetadata and artifacts.Has.
prefetchMetadata ==
    /\ dpre.pc = "queued"
    /\ \E outcome \in {"metadata", "stat", "ok"} :
         dpre' = CASE outcome = "metadata" -> [pc |-> "done", meta |-> FALSE, err |-> "metadata"]
                   [] outcome = "stat" -> [pc |-> "done", meta |-> TRUE, err |-> "stat"]
                   [] outcome = "ok" -> [pc |-> "download", meta |-> TRUE, err |-> "nil"]
    /\ UNCHANGED <<dcfg, dstore, ddl, dstaging, dinst, dmarker, dinstalled, dfailures>>

\* downloadCollectionToCache up to verifyDownloadSHA: the request fails, or
\* writeDownloadToTemp fails and the staging file is cleaned up, or the bytes
\* are in the staging file and their hash is computed.
downloadCollectionToCache(p) ==
    /\ Downloading(p)
    /\ ddl[p].pc = "idle"
    /\ \E outcome \in {"DownloadFailed", "copy", "staged"}, bytes \in {"match", "differ"} :
         IF outcome = "staged"
           THEN /\ ddl' = [ddl EXCEPT ![p] = [pc |-> "staged", bytes |-> bytes, err |-> "nil"]]
                /\ dstaging' = [dstaging EXCEPT ![p] = TRUE]
           ELSE /\ ddl' = [ddl EXCEPT ![p] = [pc |-> "done", bytes |-> "none", err |-> outcome]]
                /\ UNCHANGED dstaging
    /\ UNCHANGED <<dcfg, dstore, dpre, dinst, dmarker, dinstalled, dfailures>>

\* verifyDownloadSHA without the comparison.
verifyDownloadSHANoCheck(p) ==
    /\ ddl[p].pc = "staged"
    /\ ddl' = [ddl EXCEPT ![p].pc = IF useCache(p) THEN "commit" ELSE "done"]
    /\ UNCHANGED dstaging
    /\ UNCHANGED <<dcfg, dstore, dpre, dinst, dmarker, dinstalled, dfailures>>
\* verifyDownloadSHA and what downloadCollectionToCache does with its result:
\* on a mismatch the staging file is cleaned up and the error returned;
\* otherwise the download is committed, or returned as it is without cache.
verifyDownloadSHA(p) ==
    /\ ddl[p].pc = "staged"
    /\ IF dcfg.sha /\ ddl[p].bytes = "differ"
         THEN /\ ddl' = [ddl EXCEPT ![p].pc = "done", ![p].err = "SHA256Mismatch"]
              /\ dstaging' = [dstaging EXCEPT ![p] = FALSE]
         ELSE /\ ddl' = [ddl EXCEPT ![p].pc = IF useCache(p) THEN "commit" ELSE "done"]
              /\ UNCHANGED dstaging
    /\ UNCHANGED <<dcfg, dstore, dpre, dinst, dmarker, dinstalled, dfailures>>

\* commitDownload: artifacts.Commit fails and the staging file is cleaned up,
\* or the staging file becomes the artifact of the key.
commitDownload(p) ==
    /\ ddl[p].pc = "commit"
    /\ \E ok \in BOOLEAN :
         /\ ddl' = [ddl EXCEPT ![p].pc = "done", ![p].err = IF ok THEN "nil" ELSE "commit"]
         /\ dstore' = IF ok THEN ddl[p].bytes ELSE dstore
    /\ dstaging' = [dstaging EXCEPT ![p] = FALSE]
    /\ UNCHANGED <<dcfg, dpre, dinst, dmarker, dinstalled, dfailures>>

\* prefetchOne returns the metadata with the error of the download, and
\* finish stores them and closes the latch of the key.
prefetchFinish ==
    /\ dpre.pc = "download"
    /\ ddl["prefetch"].pc = "done"
    /\ dpre' = [dpre EXCEPT !.pc = "done", !.err = ddl["prefetch"].err]
    /\ UNCHANGED <<dcfg, dstore, ddl, dstaging, dinst, dmarker, dinstalled, dfailures>>

\* The install worker that counts a failure when the prefetch failed.
waitForPrefetchFailing ==
    /\ dinst.pc = "wait"
    /\ dpre.pc \in {"none", "done"}
    /\ IF dpre.err # "nil"
         THEN /\ dinst' = [dinst EXCEPT !.pc = "returned", !.err = dpre.err]
              /\ dfailures' = dfailures + 1
         ELSE /\ dinst' = [dinst EXCEPT !.pc = "prepare", !.meta = dpre.meta]
              /\ UNCHANGED dfailures
    /\ UNCHANGED <<dcfg, dstore, ddl, dstaging, dpre, dmarker, dinstalled>>
\* The install worker of installLevels: prefetch.Wait(key) returns when the
\* key has no latch or its latch is closed; a prefetch error is logged and
\* installCollection is called with the metadata of the prefetch.
waitForPrefetch ==
    /\ dinst.pc = "wait"
    /\ dpre.pc \in {"none", "done"}
    /\ dinst' = [dinst EXCEPT !.pc = "prepare", !.meta = dpre.meta]
    /\ UNCHANGED dfailures
    /\ UNCHANGED <<dcfg, dstore, ddl, dstaging, dpre, dmarker, dinstalled>>

\* prepareInstall up to the download: artifactExists, resolveMetadata and the
\* cached branch of fetchArtifact.  Without metadata and without a cached
\* artifact the install fails.
prepareInstall ==
    /\ dinst.pc = "prepare"
    /\ LET cacheHit == ~dcfg.noCache /\ dstore # "none"
       IN  \E fetched \in BOOLEAN :
             LET syncMeta == IF dinst.meta THEN "none" ELSE IF fetched THEN "ok" ELSE "failed"
                 hasMeta == dinst.meta \/ fetched
             IN  IF ~hasMeta /\ ~cacheHit
                   THEN /\ dinst' = [dinst EXCEPT !.pc = "returned", !.syncMeta = syncMeta,
                                                  !.err = "metadata"]
                        /\ dfailures' = dfailures + 1
                   ELSE /\ dinst' = [dinst EXCEPT !.pc = IF cacheHit THEN "extract" ELSE "download",
                                                  !.meta = hasMeta, !.syncMeta = syncMeta,
                                                  !.bytes = IF cacheHit THEN dstore ELSE "none"]
                        /\ UNCHANGED dfailures
    /\ UNCHANGED <<dcfg, dstore, ddl, dstaging, dpre, dmarker, dinstalled>>

\* fetchArtifact after downloadCollectionToCache returned: its error fails
\* the install.
fetchArtifactReturn ==
    /\ dinst.pc = "download"
    /\ ddl["sync"].pc = "done"
    /\ IF ddl["sync"].err # "nil"
         THEN /\ dinst' = [dinst EXCEPT !.pc = "returned", !.err = ddl["sync"].err]
              /\ dfailures' = dfailures + 1
         ELSE /\ dinst' = [dinst EXCEPT !.pc = "extract", !.bytes = ddl["sync"].bytes]
              /\ UNCHANGED dfailures
    /\ UNCHANGED <<dcfg, dstore, ddl, dstaging, dpre, dmarker, dinstalled>>

\* installCollection from extractCollection on: the extraction fails, or the
\* marker is written and recordInstall writes the Installed entry.  The
\* deferred Cleanup of the artifact removes a staging file that was not
\* committed.
extractAndRecord ==
    /\ dinst.pc = "extract"
    /\ \E ok \in BOOLEAN :
         IF ok
           THEN /\ dmarker' = dinst.bytes
                /\ dinstalled' = dinst.bytes
                /\ dinst' = [dinst EXCEPT !.pc = "returned"]
                /\ UNCHANGED dfailures
           ELSE /\ dinst' = [dinst EXCEPT !.pc = "returned", !.err = "extract"]
                /\ dfailures' = dfailures + 1
                /\ UNCHANGED <<dmarker, dinstalled>>
    /\ dstaging' = [dstaging EXCEPT !["sync"] = FALSE]
    /\ UNCHANGED <<dcfg, dstore, ddl, dpre>>

\* The worker's own metadata fetch, when it needed one, and its own download
\* succeeded.
SyncSucceeded ==
    /\ dinst.syncMeta # "failed"
    /\ ddl["sync"].pc = "done"
    /\ ddl["sync"].err = "nil"

(***************************************************************************)
(* A cleanup run over the registered projects.  Every project has its own  *)
(* collections path, which holds at most one version of a collection, and  *)
(* its own requirements file; a project whose file cannot be loaded has no *)
(* roots.  The MANIFEST.json of a key declares the dependencies of RunMeta.*)
(* registry.Projects is a map: the projects are visited in any order.      *)
(***************************************************************************)
VARIABLES
    kroots,      \* the roots of the requirements file of every project
    kbroken,     \* the projects whose requirements file loadRequirements cannot load
    kstart,      \* the version of every collection in every collections path, before the run
    ktree,       \* the same, now
    kvisited,    \* the projects buildReachable has visited
    korder,      \* the same, in the order of the visits
    kindex,      \* installedIndex: the records scanned so far, <<project, key>>
    kbyKey,      \* installedByKey: the project of the record kept for a key
    kreachable,  \* reachable: the keys marked so far
    kpc          \* "build", "remove" or "done"

cleanVars == <<kroots, kbroken, kstart, ktree, kvisited, korder, kindex, kbyKey, kreachable, kpc>>

NoTrees == [p \in Projects |-> [f \in Fqdns |-> 0]]

QuietCleanVars ==
    /\ kroots = [p \in Projects |-> {}]
    /\ kbroken = {}
    /\ kstart = NoTrees
    /\ ktree = NoTrees
    /\ kvisited = {}
    /\ korder = <<>>
    /\ kindex = {}
    /\ kbyKey = <<>>
    /\ kreachable = {}
    /\ kpc = "build"

\* scanInstalledCollections of the collections path of a project: one record
\* for every MANIFEST.json.
scanProject(trees, p) == {<<p, Key(f, trees[p][f])>> : f \in {g \in Fqdns : trees[p][g] # 0}}

\* The keys of a set of records.
KeysOf(records) == {r[2] : r \in records}

\* The keys that the dependencies of the manifests of some keys select in the
\* index.
DepMatches(keys, index) ==
    UNION {selectInstalled(KeysOf(index), d, RunMeta[k[1]][k[2]][d]) :
             <<k, d>> \in {x \in keys \X Fqdns : RunMeta[x[1][1]][x[1][2]][x[2]] # NoDep}}

\* markReachable for the keys of a queue: a key that is already marked is
\* skipped, the others are marked and the keys their dependencies select in
\* the index are queued.
RECURSIVE markReachableFrom(_, _, _)
markReachableFrom(queue, reachable, index) ==
    IF queue \subseteq reachable
      THEN reachable
      ELSE markReachableFrom(DepMatches(queue \ reachable, index), reachable \cup queue, index)

\* loadRequirements of a project in buildReachable: after a failure the loop
\* goes on with the next project, no root of this one being looked at.
loadRequirements(broken, p) == IF p \in broken THEN {} ELSE kroots[p]

\* The maps of buildReachable before its loop.
NothingVisited == [index |-> {}, byKey |-> <<>>, reachable |-> {}]

\* One iteration of the loop of buildReachable on its maps: the collections
\* path of the project is scanned into the index, then every installed
\* collection that a loaded root of the project selects is marked with what
\* it reaches in the index.
visitedProject(trees, broken, acc, p) ==
    [index |-> acc.index \cup scanProject(trees, p),
     byKey |-> [k \in DOMAIN acc.byKey \cup KeysOf(scanProject(trees, p)) |->
                  IF k \in KeysOf(scanProject(trees, p)) THEN p ELSE acc.byKey[k]],
     reachable |->
        markReachableFrom(
            UNION {selectInstalled(KeysOf(acc.index \cup scanProject(trees, p)), f, AnyVersion) :
                     f \in loadRequirements(broken, p)},
            acc.reachable, acc.index \cup scanProject(trees, p))]

\* One iteration of the loop of buildReachable, for any project that the
\* iteration of the map registry.Projects has not produced yet.
visitProject(p) ==
    /\ kpc = "build"
    /\ p \notin kvisited
    /\ LET acc == visitedProject(ktree, kbroken, [index |-> kindex, byKey |-> kbyKey,
                                                  reachable |-> kreachable], p)
       IN  /\ kindex' = acc.index
           /\ kbyKey' = acc.byKey
           /\ kreachable' = acc.reachable
    /\ kvisited' = kvisited \cup {p}
    /\ korder' = Append(korder, p)
    /\ kpc' = IF kvisited' = Projects THEN "remove" ELSE "build"
    /\ UNCHANGED <<kroots, kbroken, kstart, ktree>>

\* removeUnused of a run that is not dry: removeInstalled for the record of
\* every key of installedByKey that is not marked.
removeUnused ==
    /\ kpc = "remove"
    /\ ktree' = [p \in Projects |-> [f \in Fqdns |->
                    IF /\ ktree[p][f] # 0
                       /\ Key(f, ktree[p][f]) \in DOMAIN kbyKey
                       /\ kbyKey[Key(f, ktree[p][f])] = p
                       /\ Key(f, ktree[p][f]) \notin kreachable
                      THEN 0 ELSE ktree[p][f]]]
    /\ kpc' = "done"
    /\ UNCHANGED <<kroots, kbroken, kstart, kvisited, korder, kindex, kbyKey, kreachable>>

\* The records on disk before the run and those the run removed.
ScannedRecords == UNION {scanProject(kstart, p) : p \in Projects}
RemovedRecords == ScannedRecords \ UNION {scanProject(ktree, p) : p \in Projects}

\* The keys on disk that are reachable from the roots of the projects: the
\* installed collections the roots select and, repeatedly, those selected by
\* the dependencies of a reachable key.
RECURSIVE ReachableKeys(_)
ReachableKeys(S) ==
    IF DepMatches(S, ScannedRecords) \subseteq S
      THEN S
      ELSE ReachableKeys(S \cup DepMatches(S, ScannedRecords))

RootKeys ==
    UNION {selectInstalled(KeysOf(ScannedRecords), f, AnyVersion) :
             f \in UNION {kroots[p] : p \in Projects}}

\* The maps of buildReachable after its loop, the map registry.Projects being
\* iterated in the given order and loadRequirements failing for the projects
\* of broken.
RECURSIVE buildReachableIn(_, _, _, _)
buildReachableIn(trees, broken, order, acc) ==
    IF order = <<>>
      THEN acc
      ELSE buildReachableIn(trees, broken, Tail(order),
                            visitedProject(trees, broken, acc, Head(order)))

\* The records that removeUnused removes for the maps of buildReachable.
UnusedRecords(trees, acc) ==
    {r \in UNION {scanProject(trees, p) : p \in Projects} :
        /\ r[2] \in DOMAIN acc.byKey
        /\ acc.byKey[r[2]] = r[1]
        /\ r[2] \notin acc.reachable}

\* The records a cleanup run removes when it visits the projects in the
\* given order.
RemovedIn(broken, order) ==
    UnusedRecords(kstart, buildReachableIn(kstart, broken, order, NothingVisited))

(***************************************************************************)
(* The snapshot store on the two cache backends: LoadStore and SaveStore   *)
(* of the local backend (store.Load, store.Save on the Bolt buckets) and   *)
(* of the S3 backend (one JSON object).  A bucket of the store is a map    *)
(* with at most the key "k"; a slice is its elements and whether it is nil. *)
(***************************************************************************)
VARIABLES
    bkind,      \* the backend: "local" or "s3"
    bdisk,      \* what the backend holds: NoSnapshot or the persisted snapshot
    bstore,     \* the store of the process
    bsaved,     \* the store that was handed to the last SaveStore
    bloaded,    \* what the last LoadStore returned
    bpc,        \* position of the process
    bclock      \* time.Now() of the next Save, in ticks after the zero time

snapVars == <<bkind, bdisk, bstore, bsaved, bloaded, bpc, bclock>>

DataBuckets == {"api_cache", "deps_cache", "installed", "graph", "requirements",
                "roots", "resolved", "versions_cache"}

NilSlice == [nil |-> TRUE, elems |-> <<>>]
EmptySlice == [nil |-> FALSE, elems |-> <<>>]
OneSlice == [nil |-> FALSE, elems |-> <<"c.d@1.2.3">>]

\* JSON texts of a slice.
JNull == [t |-> "null", v |-> <<>>]
JOmitted == [t |-> "omitted", v |-> <<>>]
JArray(elems) == [t |-> "array", v |-> elems]

\* json.Marshal of a slice, without and with omitempty.
marshalSlice(s) == IF s.nil THEN JNull ELSE JArray(s.elems)
marshalOmitEmpty(s) == IF Len(s.elems) = 0 THEN JOmitted ELSE JArray(s.elems)

\* json.Unmarshal into a fresh slice variable.
unmarshalSlice(j) == IF j.t = "array" THEN [nil |-> FALSE, elems |-> j.v] ELSE NilSlice

\* The clone of snapshotData: make([]string, len(s)) and copy.
cloneSlice(s) == [nil |-> FALSE, elems |-> s.elems]

\* The values an entry of a bucket can have in a store of the program.  A
\* resolved entry has a version: a requirement without one gets "*".
EntryValues(b) ==
    CASE b = "resolved" -> {[Version |-> "1.0.0", Source |-> src] : src \in {"", "https://example.com"}}
      [] b = "graph" -> {NilSlice, EmptySlice, OneSlice}
      [] b = "requirements" -> {[Constraint |-> "*", Signatures |-> s] : s \in {NilSlice, EmptySlice, OneSlice}}
      [] b = "installed" -> {[ArtifactSHA256 |-> "abc", Deps |-> s] : s \in {NilSlice, OneSlice}}
      [] OTHER -> {"v"}

\* The maps a bucket can be: empty, or one entry under the key "k".
BucketMaps(b) == {<<>>} \cup {[k \in {"k"} |-> e] : e \in EntryValues(b)}

\* The bucket contents a process puts into its store.
StoreData ==
    {[api_cache |-> a, deps_cache |-> d, installed |-> i, graph |-> g,
      requirements |-> q, roots |-> o, resolved |-> r, versions_cache |-> v] :
        a \in BucketMaps("api_cache"), d \in BucketMaps("deps_cache"),
        i \in BucketMaps("installed"), g \in BucketMaps("graph"),
        q \in BucketMaps("requirements"), o \in BucketMaps("roots"),
        r \in BucketMaps("resolved"), v \in BucketMaps("versions_cache")}

\* A plain version string, as older snapshots hold it in the resolved bucket.
PlainVersion == [legacy |-> "1.0.0"]

\* json.Marshal and json.Unmarshal of one entry of bucket b.
marshalEntry(b, e) ==
    CASE b = "graph" -> marshalSlice(e)
      [] b = "requirements" -> [Constraint |-> e.Constraint,
                                Signatures |-> marshalOmitEmpty(e.Signatures)]
      [] b = "installed" -> [ArtifactSHA256 |-> e.ArtifactSHA256, Deps |-> marshalSlice(e.Deps)]
      [] OTHER -> e

unmarshalEntry(b, j) ==
    CASE b = "graph" -> unmarshalSlice(j)
      [] b = "requirements" -> [Constraint |-> j.Constraint,
                                Signatures |-> unmarshalSlice(j.Signatures)]
      [] b = "installed" -> [ArtifactSHA256 |-> j.ArtifactSHA256, Deps |-> unmarshalSlice(j.Deps)]
      [] OTHER -> j

\* loadResolved: the bytes are an entry when they unmarshal to one with a
\* version; otherwise they are taken as the version itself.
loadResolved(v) ==
    IF "legacy" \in DOMAIN v
      THEN [Version |-> v.legacy, Source |-> ""]
      ELSE IF v.Version # "" THEN v ELSE [Version |-> "the bytes", Source |-> ""]

\* store.New
New ==
    [Meta |-> [SchemaVersion |-> StoreSnapshotSchemaVersion, LastSnapshot |-> 0],
     Data |-> [b \in DataBuckets |-> <<>>]]

NoSnapshot == [present |-> FALSE]
NoStore == [Meta |-> [SchemaVersion |-> 0, LastSnapshot |-> 0], Data |-> <<>>]
NotCalled == [err |-> "not called", store |-> NoStore]

QuietSnapVars ==
    /\ bkind = "local"
    /\ bdisk = NoSnapshot
    /\ bstore = NoStore
    /\ bsaved = NoStore
    /\ bloaded = NotCalled
    /\ bpc = "start"
    /\ bclock = 1

\* snapshotData: the clones of the slices of graph (roots and versions hold
\* one value here).
snapshotData(s) ==
    [s EXCEPT !.Data = [b \in DataBuckets |->
        IF b = "graph" THEN [k \in DOMAIN s.Data[b] |-> cloneSlice(s.Data[b][k])]
        ELSE s.Data[b]]]

\* store.Save: saveMeta with the current schema version and the time, then
\* one bucket after the other, every entry through json.Marshal.
storeSave(s) ==
    [present |-> TRUE,
     Meta |-> [SchemaVersion |-> StoreSnapshotSchemaVersion, LastSnapshot |-> bclock],
     Data |-> [b \in DataBuckets |->
                 [k \in DOMAIN snapshotData(s).Data[b] |->
                    marshalEntry(b, snapshotData(s).Data[b][k])]]]

\* store.Load: loadMeta, validateSnapshotSchema, runLoadSteps.  Without a
\* meta bucket the store of New is returned.
storeLoad(d) ==
    IF ~d.present THEN [err |-> "nil", store |-> New]
    ELSE IF ~validateSnapshotSchema(d.Meta.SchemaVersion)
      THEN [err |-> "UnsupportedSchemaVersion", store |-> NoStore]
      ELSE [err |-> "nil",
            store |-> [Meta |-> d.Meta,
                       Data |-> [b \in DataBuckets |->
                                   [k \in DOMAIN d.Data[b] |->
                                      IF b = "resolved" THEN loadResolved(d.Data[b][k])
                                      ELSE unmarshalEntry(b, d.Data[b][k])]]]]

\* SaveStore of the S3 backend: json.Marshal of the store as it is, gzip,
\* putObject.
s3SaveStore(s) ==
    [present |-> TRUE,
     Meta |-> s.Meta,
     Data |-> [b \in DataBuckets |->
                 [k \in DOMAIN s.Data[b] |-> marshalEntry(b, s.Data[b][k])]]]

\* LoadStore of the S3 backend: store.New when the object is missing, else
\* json.Unmarshal of the object into store.New().
s3LoadStore(d) ==
    IF ~d.present THEN [err |-> "nil", store |-> New]
    ELSE IF \E k \in DOMAIN d.Data["resolved"] : "legacy" \in DOMAIN d.Data["resolved"][k]
      THEN [err |-> "json", store |-> NoStore]
      ELSE [err |-> "nil",
            store |-> [Meta |-> d.Meta,
                       Data |-> [b \in DataBuckets |->
                                   [k \in DOMAIN d.Data[b] |-> unmarshalEntry(b, d.Data[b][k])]]]]

\* backend.LoadStore at the start of a run and after a save.
callLoadStore ==
    /\ bpc \in {"start", "saved"}
    /\ bloaded' = IF bkind = "local" THEN storeLoad(bdisk) ELSE s3LoadStore(bdisk)
    /\ bstore' = bloaded'.store
    /\ bpc' = IF bloaded'.err # "nil" THEN "failed"
              ELSE IF bpc = "start" THEN "loaded" ELSE "reloaded"
    /\ UNCHANGED <<bkind, bdisk, bsaved, bclock>>

\* The run fills the buckets of its store (recordResolution, recordInstall,
\* the caches); SetMetaRequirements and the other setters leave the schema
\* version and the snapshot time alone.
setStore(data) ==
    /\ bpc = "loaded"
    /\ bstore' = [bstore EXCEPT !.Data = data]
    /\ bpc' = "filled"
    /\ UNCHANGED <<bkind, bdisk, bsaved, bloaded, bclock>>

\* backend.SaveStore at the end of the run.
callSaveStore ==
    /\ bpc = "filled"
    /\ bdisk' = IF bkind = "local" THEN storeSave(bstore) ELSE s3SaveStore(bstore)
    /\ bsaved' = bstore
    /\ bclock' = bclock + 1
    /\ bpc' = "saved"
    /\ UNCHANGED <<bkind, bstore, bloaded>>

\* The entries of a slice-valued field, nil or not.
Content(b, e) ==
    CASE b = "graph" -> e.elems
      [] b = "requirements" -> [Constraint |-> e.Constraint, Signatures |-> e.Signatures.elems]
      [] b = "installed" -> [ArtifactSHA256 |-> e.ArtifactSHA256, Deps |-> e.Deps.elems]
      [] OTHER -> e

SameBucket(b, m1, m2) ==
    /\ DOMAIN m1 = DOMAIN m2
    /\ \A k \in DOMAIN m1 : Content(b, m1[k]) = Content(b, m2[k])

\* The snapshots a cache holds when a run starts: none, or one saved by a
\* release with the schema version before, at or after the current one.
OldSnapshots ==
    {NoSnapshot} \cup
    {[present |-> TRUE,
      Meta |-> [SchemaVersion |-> v, LastSnapshot |-> 1],
      Data |-> [b \in DataBuckets |-> IF b = "resolved" THEN r ELSE <<>>]] :
       <<v, r>> \in {x \in ((StoreSnapshotSchemaVersion - 1)..(StoreSnapshotSchemaVersion + 1))
                          \X {<<>>, [k \in {"k"} |-> PlainVersion],
                              [k \in {"k"} |-> [Version |-> "1.0.0", Source |-> ""]]} :
                       x[2] = [k \in {"k"} |-> PlainVersion] => x[1] < StoreSnapshotSchemaVersion}}

(***************************************************************************)
(* The HTTP cache: FetchJSONWithCachePolicy on the API cache bucket of the *)
(* store, for one URL.  A call is one step: it reads the entry, makes at   *)
(* most one request, the server answers as it likes, and the entry is      *)
(* written.  Time is counted in ticks; an empty string is an absent header *)
(* or validator.                                                           *)
(***************************************************************************)
VARIABLES
    hcache,     \* the API cache bucket of the store: key -> entry
    hnow,       \* time.Now()
    hcall       \* the last call: its inputs, the requests it made, its result

httpVars == <<hcache, hnow, hcall>>

MaxNow == 2
MaxTTL == 1

TheUrl == "https://galaxy.example/api"
OtherUrl == "https://other.example/api"

\* Response bodies: not JSON, and two JSON documents.  The body of a cache
\* entry can be empty as well.
Bodies == {"{", "1", "2"}

\* The validators a response carries: none, or an ETag and a Last-Modified.
Validators == {[etag |-> "", lastModified |-> ""], [etag |-> "e2", lastModified |-> "m1"]}

Policies == [Read : BOOLEAN, Write : BOOLEAN, TTL : 0..MaxTTL]

\* What the server can answer: status 0 stands for a transport error.
Responses ==
    {[status |-> s, body |-> "", etag |-> "", lastModified |-> ""] : s \in {0, 404}}
    \cup {[status |-> 304, body |-> "", etag |-> v.etag, lastModified |-> v.lastModified] :
              v \in Validators}
    \cup {[status |-> 200, body |-> b, etag |-> v.etag, lastModified |-> v.lastModified] :
              b \in Bodies, v \in Validators}

apiCacheKey(url) == <<"sha256", url>>

ZeroEntry == [URL |-> "", FetchedAt |-> 0, TTL |-> 0, Body |-> "", ETag |-> "",
              LastModified |-> ""]

EmptyCache == [k \in {} |-> ZeroEntry]

GetAPICache(sto, key) ==
    IF key \in DOMAIN sto THEN [ok |-> TRUE, entry |-> sto[key]]
    ELSE [ok |-> FALSE, entry |-> ZeroEntry]

SetAPICache(sto, key, entry) ==
    [k \in DOMAIN sto \cup {key} |-> IF k = key THEN entry ELSE sto[k]]

\* json.Unmarshal(body, out): out is 0 when it was left alone.
jsonUnmarshal(body) ==
    IF body = "1" THEN [err |-> "nil", out |-> 1]
    ELSE IF body = "2" THEN [err |-> "nil", out |-> 2]
    ELSE [err |-> "json", out |-> 0]

Outcome(sto, rs, err, out) == [cache |-> sto, reqs |-> rs, err |-> err, out |-> out]

newAPICacheEntry(url, body, etag, lastModified, ttl, now) ==
    [URL |-> url, FetchedAt |-> now, TTL |-> ttl, Body |-> body, ETag |-> etag,
     LastModified |-> lastModified]

\* A refresh that leaves fetched_at as it was.
refreshAPICacheEntryKeepTime(entry, etag, lastModified, now) ==
    [entry EXCEPT !.ETag = IF etag # "" THEN etag ELSE @,
                  !.LastModified = IF lastModified # "" THEN lastModified ELSE @]

refreshAPICacheEntry(entry, etag, lastModified, now) ==
    [entry EXCEPT !.FetchedAt = now,
                  !.ETag = IF etag # "" THEN etag ELSE @,
                  !.LastModified = IF lastModified # "" THEN lastModified ELSE @]

\* fetchJSONBody with the validators of entry (ZeroEntry for a nil entry).
fetchJSONBody(entry, resp) ==
    [req |-> [IfNoneMatch |-> entry.ETag, IfModifiedSince |-> entry.LastModified],
     body |-> IF resp.status = 200 THEN resp.body ELSE "",
     etag |-> IF resp.status \in {200, 304} THEN resp.etag ELSE "",
     lastModified |-> IF resp.status \in {200, 304} THEN resp.lastModified ELSE "",
     notModified |-> resp.status = 304,
     err |-> IF resp.status = 0 THEN "transport"
             ELSE IF resp.status \in {200, 304} THEN "nil"
             ELSE "HTTPStatusError"]

isValidCacheEntry(ok, entry, url) == ok /\ entry.URL = url /\ entry.Body # ""

\* A freshness test that takes an entry as old as the ttl for stale.
serveFreshCacheStrict(entry, policy, now) ==
    /\ ~(policy.TTL # 0 /\ now - entry.FetchedAt >= policy.TTL)
    /\ jsonUnmarshal(entry.Body).err = "nil"

serveFreshCache(entry, policy, now) ==
    /\ ~(policy.TTL # 0 /\ now - entry.FetchedAt > policy.TTL)
    /\ jsonUnmarshal(entry.Body).err = "nil"

fetchPlain(sto, f) ==
    IF f.err # "nil" THEN Outcome(sto, <<f.req>>, f.err, 0)
    ELSE Outcome(sto, <<f.req>>, jsonUnmarshal(f.body).err, jsonUnmarshal(f.body).out)

revalidateOutcome(sto, url, key, entry, policy, now, f) ==
    IF f.err # "nil" THEN Outcome(sto, <<f.req>>, f.err, 0)
    ELSE IF f.notModified
    THEN Outcome(IF policy.Write
                 THEN SetAPICache(sto, key,
                          refreshAPICacheEntry(entry, f.etag, f.lastModified, now))
                 ELSE sto,
                 <<f.req>>, jsonUnmarshal(entry.Body).err, jsonUnmarshal(entry.Body).out)
    ELSE Outcome(IF policy.Write
                 THEN SetAPICache(sto, key,
                          newAPICacheEntry(url, f.body, f.etag, f.lastModified,
                                           policy.TTL, now))
                 ELSE sto,
                 <<f.req>>, jsonUnmarshal(f.body).err, jsonUnmarshal(f.body).out)

revalidateCache(sto, url, key, entry, policy, now, resp) ==
    revalidateOutcome(sto, url, key, entry, policy, now, fetchJSONBody(entry, resp))

storeOutcome(sto, url, key, policy, now, f) ==
    IF f.err # "nil" THEN Outcome(sto, <<f.req>>, f.err, 0)
    ELSE Outcome(IF policy.Write
                 THEN SetAPICache(sto, key,
                          newAPICacheEntry(url, f.body, f.etag, f.lastModified,
                                           policy.TTL, now))
                 ELSE sto,
                 <<f.req>>, jsonUnmarshal(f.body).err, jsonUnmarshal(f.body).out)

fetchAndStore(sto, url, key, policy, now, resp) ==
    storeOutcome(sto, url, key, policy, now, fetchJSONBody(ZeroEntry, resp))

tryServeFromCache(sto, url, key, got, policy, now, resp) ==
    IF serveFreshCache(got.entry, policy, now)
    THEN Outcome(sto, <<>>, "nil", jsonUnmarshal(got.entry.Body).out)
    ELSE revalidateCache(sto, url, key, got.entry, policy, now, resp)

FetchJSONWithCachePolicy(sto, url, policy, now, resp) ==
    IF ~policy.Read /\ ~policy.Write
    THEN fetchPlain(sto, fetchJSONBody(ZeroEntry, resp))
    ELSE IF /\ policy.Read
            /\ isValidCacheEntry(GetAPICache(sto, apiCacheKey(url)).ok,
                                 GetAPICache(sto, apiCacheKey(url)).entry, url)
    THEN tryServeFromCache(sto, url, apiCacheKey(url), GetAPICache(sto, apiCacheKey(url)),
                           policy, now, resp)
    ELSE fetchAndStore(sto, url, apiCacheKey(url), policy, now, resp)

NoCall == [made |-> FALSE, policy |-> [Read |-> FALSE, Write |-> FALSE, TTL |-> 0],
           now |-> 0, before |-> GetAPICache(EmptyCache, apiCacheKey(TheUrl)),
           resp |-> [status |-> 0, body |-> "", etag |-> "", lastModified |-> ""],
           reqs |-> <<>>, err |-> "nil", out |-> 0]

QuietHttpVars ==
    /\ hcache = EmptyCache
    /\ hnow = 0
    /\ hcall = NoCall

\* Entries a loaded snapshot can hold under the key of the URL.
LoadedEntries ==
    {newAPICacheEntry(u, b, e, "", 0, 0) : u \in {TheUrl, OtherUrl}, b \in {"", "1"},
                                           e \in {"", "e1"}}

recordCall(policy, resp, o) ==
    /\ hcall' = [made |-> TRUE, policy |-> policy, now |-> hnow,
                 before |-> GetAPICache(hcache, apiCacheKey(TheUrl)), resp |-> resp,
                 reqs |-> o.reqs, err |-> o.err, out |-> o.out]
    /\ hcache' = o.cache
    /\ UNCHANGED hnow

\* One call of FetchJSONWithCachePolicy for the URL.
fetchJSON(policy, resp) ==
    recordCall(policy, resp, FetchJSONWithCachePolicy(hcache, TheUrl, policy, hnow, resp))

\* Time passes.
clockTick ==
    /\ hnow < MaxNow
    /\ hnow' = hnow + 1
    /\ UNCHANGED <<hcache, hcall>>

\* Store.ClearCaches of --clear-cache: the API cache is emptied.
clearCaches ==
    /\ hcache # EmptyCache
    /\ hcache' = EmptyCache
    /\ hcall' = NoCall
    /\ UNCHANGED hnow

(***************************************************************************)
(* The archive extractor: extractTarEntries on a destination directory.    *)
(* A path is a sequence of components; the file system is a function from  *)
(* the absolute paths that exist to what is there.  The operating system   *)
(* follows symbolic links where it does on Linux, so that an entry is      *)
(* created where its path leads and not where its text says.               *)
(***************************************************************************)
VARIABLES
    xfs,        \* the file system: absolute path -> [kind, target]
    xlast,      \* the header of the entry that was handled last
    xerr,       \* what handleTarEntry returned for it
    xstate,     \* "reading", "done" (ExtractTarGz returned nil) or "failed"
    xcount      \* entries read so far

archiveVars == <<xfs, xlast, xerr, xstate, xcount>>

MaxEntries == 3
MaxParts == 2
MaxFollow == 2

DstDir == <<"dst">>

Components == {"a", "b", ".."}

\* Entry names and link names: "", ".", "/a", and the relative paths of at most
\* MaxParts components; a and b being alike, the longer ones do not begin
\* with b.
RawNames ==
    {[abs |-> FALSE, parts |-> <<>>], [abs |-> FALSE, parts |-> <<".">>],
     [abs |-> TRUE, parts |-> <<"a">>]}
    \cup {[abs |-> FALSE, parts |-> p] :
              p \in {q \in UNION {[1..n -> Components] : n \in 1..MaxParts} :
                        Len(q) = 1 \/ q[1] # "b"}}

NoName == [abs |-> FALSE, parts |-> <<>>]

Headers ==
    {[Typeflag |-> t, Name |-> n, Linkname |-> NoName, Size |-> "ok"] :
        t \in {"dir", "other"}, n \in RawNames}
    \cup {[Typeflag |-> "reg", Name |-> n, Linkname |-> NoName, Size |-> z] :
        n \in RawNames, z \in {"ok", "tooLarge", "short"}}
    \cup {[Typeflag |-> t, Name |-> n, Linkname |-> l, Size |-> "ok"] :
        t \in {"symlink", "link"}, n \in RawNames, l \in RawNames}

DirNode == [kind |-> "dir", target |-> <<>>]
FileNode == [kind |-> "file", target |-> <<>>]
SymlinkNode(t) == [kind |-> "symlink", target |-> t]

\* An empty destination directory under the root.
EmptyDst == [p \in {<<>>, DstDir} |-> DirNode]

Parent(p) == IF p = <<>> THEN <<>> ELSE SubSeq(p, 1, Len(p) - 1)
KindAt(fsys, p) == IF p \in DOMAIN fsys THEN fsys[p].kind ELSE "none"
Put(fsys, p, node) == [q \in DOMAIN fsys \cup {p} |-> IF q = p THEN node ELSE fsys[q]]

\* Where no path leads: too many links.
Lost == <<"", "ELOOP">>

\* Path resolution of the kernel: the place reached from the directory cur
\* along parts, symbolic links followed.
RECURSIVE walk(_, _, _, _)
walk(fsys, cur, parts, fuel) ==
    IF parts = <<>> THEN cur
    ELSE IF Head(parts) = ".." THEN walk(fsys, Parent(cur), Tail(parts), fuel)
    ELSE IF KindAt(fsys, Append(cur, Head(parts))) = "symlink"
    THEN IF fuel = 0 THEN Lost
         ELSE walk(fsys, cur, fsys[Append(cur, Head(parts))].target \o Tail(parts), fuel - 1)
    ELSE walk(fsys, Append(cur, Head(parts)), Tail(parts), fuel)

\* filepath.Clean on the components of a path.
RECURSIVE cleanParts(_, _, _)
cleanParts(abs, parts, acc) ==
    IF parts = <<>> THEN acc
    ELSE IF Head(parts) = "." THEN cleanParts(abs, Tail(parts), acc)
    ELSE IF Head(parts) # ".." THEN cleanParts(abs, Tail(parts), Append(acc, Head(parts)))
    ELSE IF acc # <<>> /\ acc[Len(acc)] # ".."
    THEN cleanParts(abs, Tail(parts), SubSeq(acc, 1, Len(acc) - 1))
    ELSE IF abs THEN cleanParts(abs, Tail(parts), acc)
    ELSE cleanParts(abs, Tail(parts), Append(acc, ".."))

\* filepath.Rel of two clean relative paths without "..".
RECURSIVE relPath(_, _)
relPath(base, targ) ==
    IF base # <<>> /\ targ # <<>> /\ Head(base) = Head(targ)
    THEN relPath(Tail(base), Tail(targ))
    ELSE [i \in 1..Len(base) |-> ".."] \o targ

Result(err, fsys) == [err |-> err, fs |-> fsys]

\* A sanitizer that lets a path that escapes through.
sanitizeArchivePathNoEscape(nm) ==
    IF nm.parts = <<>> /\ ~nm.abs THEN [err |-> "ArchiveEntryHasEmptyName", rel |-> <<>>]
    ELSE IF cleanParts(nm.abs, nm.parts, <<>>) = <<>> /\ ~nm.abs THEN [err |-> "nil", rel |-> <<>>]
    ELSE IF nm.abs THEN [err |-> "ArchiveEntryIsAbsolutePath", rel |-> <<>>]
    ELSE [err |-> "nil", rel |-> cleanParts(nm.abs, nm.parts, <<>>)]

sanitizeArchivePath(nm) ==
    IF nm.parts = <<>> /\ ~nm.abs THEN [err |-> "ArchiveEntryHasEmptyName", rel |-> <<>>]
    ELSE IF cleanParts(nm.abs, nm.parts, <<>>) = <<>> /\ ~nm.abs THEN [err |-> "nil", rel |-> <<>>]
    ELSE IF nm.abs THEN [err |-> "ArchiveEntryIsAbsolutePath", rel |-> <<>>]
    ELSE IF Head(cleanParts(nm.abs, nm.parts, <<>>)) = ".."
    THEN [err |-> "ArchiveEntryEscapesDestination", rel |-> <<>>]
    ELSE [err |-> "nil", rel |-> cleanParts(nm.abs, nm.parts, <<>>)]

\* os.Lstat of baseDir joined with the first i components of rel: the link at
\* the end is not followed, the ones before it are.
lstatKind(fsys, baseDir, rel, i) ==
    IF walk(fsys, baseDir, SubSeq(rel, 1, i - 1), MaxFollow) = Lost THEN "error"
    ELSE IF i > 1 /\ KindAt(fsys, walk(fsys, baseDir, SubSeq(rel, 1, i - 1), MaxFollow))
                        \notin {"dir", "none"}
    THEN "error"
    ELSE KindAt(fsys, Append(walk(fsys, baseDir, SubSeq(rel, 1, i - 1), MaxFollow), rel[i]))

RECURSIVE ensureFrom(_, _, _, _)
ensureFrom(fsys, baseDir, rel, i) ==
    IF i > Len(rel) THEN "nil"
    ELSE IF lstatKind(fsys, baseDir, rel, i) = "error" THEN "stat"
    ELSE IF lstatKind(fsys, baseDir, rel, i) = "symlink"
    THEN "ArchivePathContainsSymlinkComponent"
    ELSE ensureFrom(fsys, baseDir, rel, i + 1)

ensureNoSymlinkParents(fsys, baseDir, rel) == ensureFrom(fsys, baseDir, rel, 1)

safeResolved(baseDir, resolved) ==
    IF resolved = <<>> THEN [err |-> "SymlinkTargetResolvesToRoot", rel |-> <<>>]
    ELSE IF Head(resolved) = ".."
    THEN [err |-> "SymlinkTargetEscapesDestination", rel |-> <<>>]
    ELSE IF relPath(baseDir, resolved) = <<>>
    THEN [err |-> "SymlinkTargetResolvesToSelf", rel |-> <<>>]
    ELSE [err |-> "nil", rel |-> relPath(baseDir, resolved)]

safeSymlinkTarget(rel, linkName) ==
    IF linkName.parts = <<>> /\ ~linkName.abs
    THEN [err |-> "SymlinkTargetIsEmpty", rel |-> <<>>]
    ELSE IF linkName.abs THEN [err |-> "SymlinkTargetIsAbsolute", rel |-> <<>>]
    ELSE IF cleanParts(FALSE, linkName.parts, <<>>) = <<>>
    THEN [err |-> "SymlinkTarget", rel |-> <<>>]
    ELSE safeResolved(Parent(rel),
                      cleanParts(FALSE, Parent(rel) \o cleanParts(FALSE, linkName.parts, <<>>),
                                 <<>>))

\* os.MkdirAll of cur joined with parts: the directories that are missing are
\* made one after the other, and those made stay when a later one fails.
RECURSIVE mkdirAll(_, _, _)
mkdirNext(fsys, cur, parts, next) ==
    IF next = Lost THEN [err |-> "mkdir", fs |-> fsys, at |-> cur]
    ELSE IF KindAt(fsys, next) = "dir" THEN mkdirAll(fsys, next, Tail(parts))
    ELSE IF KindAt(fsys, next) = "none" /\ KindAt(fsys, Append(cur, Head(parts))) = "none"
    THEN mkdirAll(Put(fsys, next, DirNode), next, Tail(parts))
    ELSE [err |-> "mkdir", fs |-> fsys, at |-> cur]

mkdirAll(fsys, cur, parts) ==
    IF parts = <<>> THEN [err |-> "nil", fs |-> fsys, at |-> cur]
    ELSE mkdirNext(fsys, cur, parts, walk(fsys, cur, <<Head(parts)>>, MaxFollow))

extractDir(fsys, rel) ==
    Result(IF mkdirAll(fsys, DstDir, rel).err = "nil" THEN "nil" ELSE "mkdir",
           mkdirAll(fsys, DstDir, rel).fs)

\* os.OpenFile with O_CREATE|O_WRONLY|O_TRUNC of the name in the directory at,
\* where loc is the place the name leads to, and io.CopyN into the file.
openAndCopy(fsys, loc, size) ==
    IF loc = Lost \/ KindAt(fsys, loc) = "dir" \/ KindAt(fsys, Parent(loc)) # "dir"
    THEN Result("create", fsys)
    ELSE Result(IF size = "short" THEN "write" ELSE "nil", Put(fsys, loc, FileNode))

extractRegularFileIn(made, hdr, rel) ==
    IF made.err # "nil" THEN Result("mkdir", made.fs)
    ELSE openAndCopy(made.fs, walk(made.fs, made.at, <<rel[Len(rel)]>>, MaxFollow), hdr.Size)

extractRegularFile(fsys, hdr, rel) ==
    IF hdr.Size = "tooLarge" THEN Result("ArchiveEntryIsTooLarge", fsys)
    ELSE extractRegularFileIn(mkdirAll(fsys, DstDir, Parent(rel)), hdr, rel)

\* os.Symlink: the new name must not exist, and is not followed.
extractSymlinkIn(made, rel, linkTarget) ==
    IF made.err # "nil" THEN Result("mkdir", made.fs)
    ELSE IF KindAt(made.fs, Append(made.at, rel[Len(rel)])) # "none"
    THEN Result("symlink", made.fs)
    ELSE Result("nil", Put(made.fs, Append(made.at, rel[Len(rel)]), SymlinkNode(linkTarget)))

extractSymlinkTo(fsys, rel, safe) ==
    IF safe.err # "nil" THEN Result(safe.err, fsys)
    ELSE extractSymlinkIn(mkdirAll(fsys, DstDir, Parent(rel)), rel, safe.rel)

extractSymlink(fsys, rel, hdr) == extractSymlinkTo(fsys, rel, safeSymlinkTarget(rel, hdr.Linkname))

\* os.Link: the old name must be there and no directory, the new name must
\* not exist; neither is followed at its end.
extractHardlinkIn(made, rel, old) ==
    IF made.err # "nil" THEN Result("mkdir", made.fs)
    ELSE IF KindAt(made.fs, old) \in {"none", "dir"}
            \/ KindAt(made.fs, Append(made.at, rel[Len(rel)])) # "none"
    THEN Result("link", made.fs)
    ELSE Result("nil", Put(made.fs, Append(made.at, rel[Len(rel)]), made.fs[old]))

extractHardlinkTo(fsys, rel, linkRel) ==
    IF linkRel.err # "nil" THEN Result(linkRel.err, fsys)
    ELSE IF linkRel.rel = <<>> THEN Result("HardlinkTargetIsEmpty", fsys)
    ELSE IF ensureNoSymlinkParents(fsys, DstDir, linkRel.rel) # "nil"
    THEN Result(ensureNoSymlinkParents(fsys, DstDir, linkRel.rel), fsys)
    ELSE extractHardlinkIn(mkdirAll(fsys, DstDir, Parent(rel)), rel,
             Append(walk(fsys, DstDir, Parent(linkRel.rel), MaxFollow),
                    linkRel.rel[Len(linkRel.rel)]))

extractHardlink(fsys, rel, hdr) == extractHardlinkTo(fsys, rel, sanitizeArchivePath(hdr.Linkname))

handleSanitized(fsys, hdr, clean) ==
    IF clean.err # "nil" THEN Result(clean.err, fsys)
    ELSE IF clean.rel = <<>> THEN Result("nil", fsys)
    ELSE IF ensureNoSymlinkParents(fsys, DstDir, clean.rel) # "nil"
    THEN Result(ensureNoSymlinkParents(fsys, DstDir, clean.rel), fsys)
    ELSE IF hdr.Typeflag = "dir" THEN extractDir(fsys, clean.rel)
    ELSE IF hdr.Typeflag = "reg" THEN extractRegularFile(fsys, hdr, clean.rel)
    ELSE IF hdr.Typeflag = "symlink" THEN extractSymlink(fsys, clean.rel, hdr)
    ELSE IF hdr.Typeflag = "link" THEN extractHardlink(fsys, clean.rel, hdr)
    ELSE Result("nil", fsys)

handleTarEntry(fsys, hdr) == handleSanitized(fsys, hdr, sanitizeArchivePath(hdr.Name))

NoHeader == [Typeflag |-> "other", Name |-> NoName, Linkname |-> NoName, Size |-> "ok"]

QuietArchiveVars ==
    /\ xfs = EmptyDst
    /\ xlast = NoHeader
    /\ xerr = "nil"
    /\ xstate = "done"
    /\ xcount = 0

recordEntry(hdr, res) ==
    /\ xfs' = res.fs
    /\ xlast' = hdr
    /\ xerr' = res.err
    /\ xstate' = IF res.err = "nil" THEN "reading" ELSE "failed"
    /\ xcount' = xcount + 1

\* One round of the loop of extractTarEntries: the next header is read and
\* handled.
nextEntry(hdr) ==
    /\ xstate = "reading"
    /\ xcount < MaxEntries
    /\ recordEntry(hdr, handleTarEntry(xfs, hdr))

\* tarReader.Next returns io.EOF.
endOfArchive ==
    /\ xstate = "reading"
    /\ xstate' = "done"
    /\ UNCHANGED <<xfs, xlast, xerr, xcount>>

(***************************************************************************)
(* extractCollection on one install path, step by step.  The install path  *)
(* of a collection is the same for all its versions; an artifact is a      *)
(* version's tarball with NumFiles files.  os.RemoveAll removes the        *)
(* entries of the directory one at a time in the order of the directory,   *)
(* ExtractTarGz creates the files in the order of the archive, and the     *)
(* process can be killed between any two steps.                            *)
(***************************************************************************)
VARIABLES
    epath,      \* the install path: [exists, files, markers]
    epc,        \* position in extractCollection, "idle" between calls
    eart,       \* the artifact of the call
    eext,       \* what ExtractTarGz returned in the call: "none", "ok", "failed"
    etrusted    \* what the last skip found: "none", "complete" or "partial"

markerVars == <<epath, epc, eart, eext, etrusted>>

NumArtifacts == 2
NumFiles == 2

ArtifactIds == 1..NumArtifacts
FilesOf(a) == {<<a, f>> : f \in 1..NumFiles}

\* archive.FileHashSHA256 of the tarball, or the checksum of the metadata.
FileHashSHA256(a) == <<"sha256", a>>

\* The name of the marker file.
cacheTag(a) == <<".extract-done", FileHashSHA256(a)>>

NoPath == [exists |-> FALSE, files |-> {}, markers |-> {}]

QuietMarkerVars ==
    /\ epath = NoPath
    /\ epc = "idle"
    /\ eart = 1
    /\ eext = "none"
    /\ etrusted = "none"

\* installCollection reaches extractCollection for an artifact.
extractCollectionCall(a) ==
    /\ epc = "idle"
    /\ epc' = "stat"
    /\ eart' = a
    /\ eext' = "none"
    /\ UNCHANGED <<epath, etrusted>>

\* os.Stat(cacheTag): the extraction is skipped when the marker is there.
statCacheTag ==
    /\ epc = "stat"
    /\ IF cacheTag(eart) \in epath.markers
         THEN /\ epc' = "idle"
              /\ etrusted' = IF FilesOf(eart) \subseteq epath.files THEN "complete"
                             ELSE "partial"
         ELSE /\ epc' = "remove"
              /\ UNCHANGED etrusted
    /\ UNCHANGED <<epath, eart, eext>>

\* os.RemoveAll unlinks one entry of the install path.
removeEntry ==
    /\ epc = "remove"
    /\ \/ \E f \in epath.files : epath' = [epath EXCEPT !.files = @ \ {f}]
       \/ \E t \in epath.markers : epath' = [epath EXCEPT !.markers = @ \ {t}]
    /\ UNCHANGED <<epc, eart, eext, etrusted>>

\* os.RemoveAll removes the directory that is empty or not there and returns,
\* or fails on an entry and returns an error, which is dropped; os.MkdirAll
\* follows.
removeAllReturns ==
    /\ epc = "remove"
    /\ \/ /\ epath.files = {} /\ epath.markers = {}
          /\ epath' = NoPath
       \/ /\ epath.exists
          /\ UNCHANGED epath
    /\ epc' = "mkdir"
    /\ UNCHANGED <<eart, eext, etrusted>>

\* os.MkdirAll(installPath), which can fail.
mkdirInstallPath ==
    /\ epc = "mkdir"
    /\ \/ /\ epath' = [epath EXCEPT !.exists = TRUE]
          /\ epc' = "extract"
       \/ /\ ~epath.exists
          /\ epc' = "idle"
          /\ UNCHANGED epath
    /\ UNCHANGED <<eart, eext, etrusted>>

\* ExtractTarGz creates the next file of the archive.
extractFile ==
    /\ epc = "extract"
    /\ \E f \in 1..NumFiles :
         /\ <<eart, f>> \notin epath.files
         /\ \A g \in 1..(f - 1) : <<eart, g>> \in epath.files
         /\ epath' = [epath EXCEPT !.files = @ \cup {<<eart, f>>}]
    /\ UNCHANGED <<epc, eart, eext, etrusted>>

\* ExtractTarGz returns: nil after the last entry, an error at any entry.
extractReturns ==
    /\ epc = "extract"
    /\ \/ /\ FilesOf(eart) \subseteq epath.files
          /\ eext' = "ok"
          /\ epc' = "marker"
       \/ /\ eext' = "failed"
          /\ epc' = "idle"
    /\ UNCHANGED <<epath, eart, etrusted>>

\* os.WriteFile(cacheTag, "ok").
writeCacheTag ==
    /\ epc = "marker"
    /\ epath' = [epath EXCEPT !.markers = @ \cup {cacheTag(eart)}]
    /\ epc' = "idle"
    /\ UNCHANGED <<eart, eext, etrusted>>

\* The process is killed inside extractCollection; a later run starts over.
killed ==
    /\ epc # "idle"
    /\ epc' = "idle"
    /\ UNCHANGED <<epath, eart, eext, etrusted>>

(***************************************************************************)
(* The root metadata of one collection: from the requirement and the       *)
(* configured server to the collection, its candidate URLs, and the loop   *)
(* of loadRootMetadataCached over them.  A base URL is a host and the      *)
(* segments of its path; the URL of a candidate is an API root and whether *)
(* it ends with a slash, the collection being the same in all of them.     *)
(***************************************************************************)
VARIABLES
    userver,    \* cfg.Server
    ureq,       \* the source the requirement names, NoBase when it names none
    ucol,       \* the Source of the collection
    ucands,     \* the candidate URLs of the call
    utried,     \* what the GET of each candidate tried so far returned
    upc,        \* "idle", "probing" or "returned"
    uerr        \* the error the call returned

probeVars == <<userver, ureq, ucol, ucands, utried, upc, uerr>>

NoBase == [host |-> "", segs |-> <<>>]

ApiPaths == {<<>>, <<"api">>, <<"api", "v2">>, <<"api", "v3">>}

\* The base URLs of the model: the configured server and another source.
ServerBases == {[host |-> "galaxy", segs |-> p] : p \in ApiPaths}
SourceBases == {[host |-> "galaxy", segs |-> <<>>], [host |-> "hub", segs |-> <<>>],
                [host |-> "hub", segs |-> <<"api">>]}

\* What the GET of a candidate returns: nil, an HTTPStatusError with the
\* status code, or another error.
FetchOutcomes == {"nil", "404", "500", "transport"}

\* applyRequirementDefaults of the requirements file, and prepareRoots after it.
applyRequirementDefaults(source, defaultSource) ==
    IF source = NoBase THEN defaultSource ELSE source

prepareRoots(server, source) == IF source = NoBase THEN server ELSE source

\* Appending to a list what it does not hold yet.
AddNew(out, value) ==
    IF \E i \in 1..Len(out) : out[i] = value THEN out ELSE Append(out, value)

serverBaseCandidates(server, source) ==
    IF source = NoBase
    THEN (IF server = NoBase THEN <<>> ELSE <<server>>)
    ELSE (IF server = NoBase THEN <<source>> ELSE AddNew(<<source>>, server))

WithSegs(base, tail) == [base EXCEPT !.segs = @ \o tail]

apiRootCandidates(base) ==
    IF base = NoBase THEN <<>>
    ELSE IF Len(base.segs) >= 2 /\ base.segs[Len(base.segs) - 1] = "api"
            /\ base.segs[Len(base.segs)] \in {"v2", "v3"}
    THEN <<base>>
    ELSE IF Len(base.segs) >= 1 /\ base.segs[Len(base.segs)] = "api"
    THEN <<WithSegs(base, <<"v3">>), WithSegs(base, <<"v2">>), base>>
    ELSE <<WithSegs(base, <<"api", "v3">>), WithSegs(base, <<"api", "v2">>),
           WithSegs(base, <<"api">>)>>

\* addWithVariants: the URL with and without the slash at its end.
RECURSIVE addRoots(_, _)
addRoots(out, apiRoots) ==
    IF apiRoots = <<>> THEN out
    ELSE addRoots(AddNew(AddNew(out, [root |-> Head(apiRoots), slash |-> TRUE]),
                         [root |-> Head(apiRoots), slash |-> FALSE]),
                  Tail(apiRoots))

RECURSIVE addBases(_, _)
addBases(out, bases) ==
    IF bases = <<>> THEN out
    ELSE addBases(addRoots(out, apiRootCandidates(Head(bases))), Tail(bases))

rootMetadataURLCandidates(server, source) ==
    addBases(<<>>, serverBaseCandidates(server, source))

QuietProbeVars ==
    /\ userver = NoBase
    /\ ureq = NoBase
    /\ ucol = NoBase
    /\ ucands = <<>>
    /\ utried = <<>>
    /\ upc = "idle"
    /\ uerr = "nil"

\* The requirement is loaded and loadRootMetadataCached is called for its
\* collection.
loadRootMetadataCached(source) ==
    /\ upc = "idle"
    /\ ureq' = source
    /\ ucol' = prepareRoots(userver, applyRequirementDefaults(source, userver))
    /\ ucands' = rootMetadataURLCandidates(userver,
                     prepareRoots(userver, applyRequirementDefaults(source, userver)))
    /\ utried' = <<>>
    /\ upc' = "probing"
    /\ uerr' = "nil"
    /\ UNCHANGED userver

\* One round of the loop: the GET of the next candidate and what follows.
probeCandidate(outcome) ==
    /\ upc = "probing"
    /\ Len(utried) < Len(ucands)
    /\ utried' = Append(utried, outcome)
    /\ IF outcome = "nil" THEN upc' = "returned" /\ uerr' = "nil"
       ELSE IF ucol # NoBase THEN upc' = "returned" /\ uerr' = outcome
       ELSE IF outcome = "404" THEN upc' = "probing" /\ uerr' = "nil"
       ELSE upc' = "returned" /\ uerr' = outcome
    /\ UNCHANGED <<userver, ureq, ucol, ucands>>

\* After the last candidate: the last 404, or ErrLoadMetadataFailed.
candidatesExhausted ==
    /\ upc = "probing"
    /\ Len(utried) = Len(ucands)
    /\ upc' = "returned"
    /\ uerr' = IF utried # <<>> THEN utried[Len(utried)] ELSE "LoadMetadataFailed"
    /\ UNCHANGED <<userver, ureq, ucol, ucands, utried>>

\* The next collection.
nextCollection ==
    /\ upc = "returned"
    /\ upc' = "idle"
    /\ UNCHANGED <<userver, ureq, ucol, ucands, utried, uerr>>

(***************************************************************************)
(* The version of one root collection over successive install runs with    *)
(* and without --refresh and --no-cache, on a server that publishes new    *)
(* versions: the snapshot of the last resolution, the API cache and the    *)
(* deps cache of the store, and resolveOne with the cache policy of the    *)
(* run.  The collection has no dependencies; a run is one step.            *)
(***************************************************************************)
VARIABLES
    vhighest,   \* the highest version the server has published
    vreq,       \* the constraint of the root in the requirements file
    vsnap,      \* the resolved bucket and the requirements hash of the store
    vapi,       \* the API cache bucket of the store
    vdeps,      \* the versions whose dependencies are in the deps cache
    vnow,       \* time.Now()
    vlast       \* the last run: its options and what it chose from what

refreshVars == <<vhighest, vreq, vsnap, vapi, vdeps, vnow, vlast>>

\* helpers.CacheLatestMetadataTTL, in ticks of the clock.
CacheLatestMetadataTTL == 1

RootUrl == "https://galaxy.example/api/v3/collections/ns/name/"
VersionsUrl == "https://galaxy.example/api/v3/collections/ns/name/versions/?limit=100"
VersionUrl(v) ==
    IF v = 1 THEN "https://galaxy.example/api/v3/collections/ns/name/versions/1/"
    ELSE "https://galaxy.example/api/v3/collections/ns/name/versions/2/"

\* The versions the server can have published, their number being the body
\* of its documents: highest_version of the root metadata, and the versions
\* list 1..n.
Published == {1, 2}
BodyOf(n) == IF n = 1 THEN "1" ELSE "2"

\* The answer of the server to a GET: the document, or no answer at all.
serverAnswer(n, up) ==
    [status |-> IF up THEN 200 ELSE 0, body |-> IF up THEN BodyOf(n) ELSE "",
     etag |-> "", lastModified |-> ""]

RefreshConstraints == {AnyVersion, Lt(2), Eq(1)}

NoSnap == [hash |-> NoHash, version |-> 0]

PolicyForConstraint(noCache, refresh, exact) ==
    IF noCache THEN [Read |-> FALSE, Write |-> FALSE, TTL |-> 0]
    ELSE IF ~exact
    THEN (IF refresh THEN [Read |-> FALSE, Write |-> TRUE, TTL |-> CacheLatestMetadataTTL]
          ELSE [Read |-> TRUE, Write |-> TRUE, TTL |-> CacheLatestMetadataTTL])
    ELSE [Read |-> TRUE, Write |-> TRUE, TTL |-> 0]

\* What a resolution returns: the version, where it came from, the number of
\* requests, whether every document the version was chosen from was
\* requested in this run, and the buckets of the store after it.
Resolution(err, version, from, nreq, fetched, api, depsCache) ==
    [err |-> err, version |-> version, from |-> from, nreq |-> nreq, fetched |-> fetched,
     api |-> api, deps |-> depsCache]

\* cacheDeps after fetchVersionMetadataCached.
versionMetadata(o, policy, version, nreq, fetched, depsCache) ==
    IF o.err # "nil" THEN Resolution(o.err, 0, "none", nreq + Len(o.reqs), fetched, o.cache, depsCache)
    ELSE Resolution("nil", version, "server", nreq + Len(o.reqs), fetched, o.cache,
                    IF policy.Write THEN depsCache \cup {version} ELSE depsCache)

\* cachedResult, and fetchVersionMetadataCached when the deps cache does not
\* answer.
cachedResult(api, policy, version, nreq, fetched, depsCache, up) ==
    IF policy.Read /\ version \in depsCache
    THEN Resolution("nil", version, IF nreq = 0 THEN "depscache" ELSE "server", nreq,
                    fetched, api, depsCache)
    ELSE versionMetadata(FetchJSONWithCachePolicy(api, VersionUrl(version), policy, vnow,
                                                  serverAnswer(1, up)),
                         policy, version, nreq, fetched, depsCache)

\* loadVersionsListCached (the versions cache is for a policy without ttl
\* only, which a constraint that is not exact never has) and selectVersion.
versionsList(o, policy, constraint, nreq, fetched, depsCache, up) ==
    IF o.err # "nil" THEN Resolution(o.err, 0, "none", nreq + Len(o.reqs), fetched, o.cache, depsCache)
    ELSE IF selectVersion(1..o.out, {constraint}) = 0
    THEN Resolution("NoVersionSatisfiesConstraints", 0, "none", nreq + Len(o.reqs),
                    fetched, o.cache, depsCache)
    ELSE cachedResult(o.cache, policy, selectVersion(1..o.out, {constraint}),
                      nreq + Len(o.reqs), fetched /\ o.reqs # <<>>, depsCache, up)

\* resolveOne after resolveRootMetadata: resolveFinalVersion.
rootMetadata(o, policy, constraint, depsCache, up) ==
    IF o.err # "nil" THEN Resolution(o.err, 0, "none", Len(o.reqs), FALSE, o.cache, depsCache)
    ELSE IF constraint.op = "="
    THEN cachedResult(o.cache, policy, constraint.v, Len(o.reqs), o.reqs # <<>>, depsCache, up)
    ELSE IF constraintSatisfied(o.out, constraint)
    THEN cachedResult(o.cache, policy, o.out, Len(o.reqs), o.reqs # <<>>, depsCache, up)
    ELSE versionsList(FetchJSONWithCachePolicy(o.cache, VersionsUrl, policy, vnow,
                                               serverAnswer(vhighest, up)),
                      policy, constraint, Len(o.reqs), o.reqs # <<>>, depsCache, up)

\* resolveOne of the root under its constraint.
resolveRoot(api, depsCache, policy, constraint, up) ==
    IF constraint.op = "=" /\ policy.Read /\ constraint.v \in depsCache
    THEN Resolution("nil", constraint.v, "depscache", 0, FALSE, api, depsCache)
    ELSE rootMetadata(FetchJSONWithCachePolicy(api, RootUrl, policy, vnow,
                                               serverAnswer(vhighest, up)),
                      policy, constraint, depsCache, up)

\* loadResolvedFromSnapshot for the one root: snapshotMatchesRequirements,
\* buildResolvedSnapshot and rootsMatchSnapshot.
snapshotReusable(snap, constraint) ==
    /\ snap.hash # NoHash
    /\ snap.hash = (IF normalizeConstraint(constraint) = Empty THEN AnyVersion ELSE constraint)
    /\ snap.version # 0
    /\ constraintSatisfied(snap.version, constraint)

\* resolveCollectionsInternal with dependencies enabled.
resolveWithSnapshot(snap, api, depsCache, noCache, refresh, constraint, up) ==
    IF snapshotReusable(snap, constraint)
    THEN Resolution("nil", snap.version, "snapshot", 0, FALSE, api, depsCache)
    ELSE resolveRoot(api, depsCache, PolicyForConstraint(noCache, refresh, constraint.op = "="),
                     constraint, up)

NoRefreshRun == [made |-> FALSE, refresh |-> FALSE, noCache |-> FALSE, constraint |-> AnyVersion,
                 highest |-> 1, err |-> "nil", version |-> 0, from |-> "none", nreq |-> 0,
                 fetched |-> FALSE]

QuietRefreshVars ==
    /\ vhighest = 1
    /\ vreq = AnyVersion
    /\ vsnap = NoSnap
    /\ vapi = EmptyCache
    /\ vdeps = {}
    /\ vnow = 0
    /\ vlast = NoRefreshRun

\* An install run up to the end of the resolution, recordResolution and the
\* SaveStore of the run included; a run whose resolution fails saves nothing.
recordRefreshRun(refresh, noCache, r) ==
    /\ vlast' = [made |-> TRUE, refresh |-> refresh, noCache |-> noCache, constraint |-> vreq,
                 highest |-> vhighest, err |-> r.err, version |-> r.version, from |-> r.from,
                 nreq |-> r.nreq, fetched |-> r.fetched]
    /\ IF r.err = "nil"
       THEN /\ vsnap' = IF r.from = "snapshot" THEN vsnap
                        ELSE [hash |-> IF normalizeConstraint(vreq) = Empty THEN AnyVersion ELSE vreq,
                              version |-> r.version]
            /\ vapi' = r.api
            /\ vdeps' = r.deps
       ELSE UNCHANGED <<vsnap, vapi, vdeps>>
    /\ UNCHANGED <<vhighest, vreq, vnow>>

resolveRun(refresh, noCache, up) ==
    recordRefreshRun(refresh, noCache,
                     resolveWithSnapshot(vsnap, vapi, vdeps, noCache, refresh, vreq, up))

\* The maintainers publish a new version.
publishVersion ==
    /\ vhighest + 1 \in Published
    /\ vhighest' = vhighest + 1
    /\ UNCHANGED <<vreq, vsnap, vapi, vdeps, vnow, vlast>>

\* The user edits the constraint of the root.
changeRequirement(c) ==
    /\ c # vreq
    /\ vreq' = c
    /\ UNCHANGED <<vhighest, vsnap, vapi, vdeps, vnow, vlast>>

\* Time passes between two runs.
timePasses ==
    /\ vnow < MaxNow
    /\ vnow' = vnow + 1
    /\ UNCHANGED <<vhighest, vreq, vsnap, vapi, vdeps, vlast>>

(***************************************************************************)
(* The two commands under --dry-run: an install run (runInstall) and a     *)
(* cleanup run (cleanup.Start) of one project whose requirements name      *)
(* roots without dependencies.  The state a run can touch is the install   *)
(* trees and the .info directories of the collections path, the artifacts  *)
(* of the cache, the store of the run and the saved snapshot.              *)
(***************************************************************************)
VARIABLES
    yreq,       \* the roots of the requirements file
    ytree,      \* the keys whose install tree exists
    yinfo,      \* the keys whose .info directory exists
    yart,       \* the keys whose artifact is in the cache
    ysaved,     \* the snapshot in the cache: its resolved and installed buckets
    yst,        \* the store of the run in progress
    ycmd,       \* "none", "install" or "cleanup"
    ydry,       \* cfg.DryRun of the run
    ypc,        \* position of the run
    ydone,      \* the keys whose install worker has returned
    ysaves,     \* the calls of SaveStore in the run
    ybefore     \* trees, .info directories, artifacts and snapshot when the run started

dryVars == <<yreq, ytree, yinfo, yart, ysaved, yst, ycmd, ydry, ypc, ydone, ysaves, ybefore>>

\* Number of collections of the project.
NumDryKeys == 2
DryKeys == 1..NumDryKeys

EmptyBuckets == [resolved |-> {}, installed |-> {}]
NothingBefore == [tree |-> {}, info |-> {}, art |-> {}, saved |-> EmptyBuckets]

QuietDryVars ==
    /\ yreq = {}
    /\ ytree = {}
    /\ yinfo = {}
    /\ yart = {}
    /\ ysaved = EmptyBuckets
    /\ yst = EmptyBuckets
    /\ ycmd = "none"
    /\ ydry = FALSE
    /\ ypc = "idle"
    /\ ydone = {}
    /\ ysaves = 0
    /\ ybefore = NothingBefore

\* The user edits the requirements file between two runs.
dryEditRequirements(rts) ==
    /\ ypc = "idle"
    /\ rts # yreq
    /\ yreq' = rts
    /\ UNCHANGED <<ytree, yinfo, yart, ysaved, yst, ycmd, ydry, ypc, ydone, ysaves, ybefore>>

\* initInstall or initCleanup: the backend is opened and locked and the store
\* is loaded.
dryStart(cmd, dry) ==
    /\ ypc = "idle"
    /\ ycmd' = cmd
    /\ ydry' = dry
    /\ yst' = ysaved
    /\ ydone' = {}
    /\ ysaves' = 0
    /\ ybefore' = [tree |-> ytree, info |-> yinfo, art |-> yart, saved |-> ysaved]
    /\ ypc' = IF cmd = "install" THEN "plan" ELSE "remove"
    /\ UNCHANGED <<yreq, ytree, yinfo, yart, ysaved>>

\* prepareInstallPlan: the roots are resolved and the resolution is recorded
\* in the store of the run.
dryPrepareInstallPlan ==
    /\ ypc = "plan"
    /\ yst' = [yst EXCEPT !.resolved = yreq]
    /\ ypc' = "install"
    /\ UNCHANGED <<yreq, ytree, yinfo, yart, ysaved, ycmd, ydry, ydone, ysaves, ybefore>>

\* installCollection of one key of the level: skipped when canSkipInstall,
\* else the artifact is fetched into the cache, extracted, GALAXY.yml is
\* written and the install is recorded.
dryInstallCollection(k) ==
    /\ ypc = "install"
    /\ k \in yreq \ ydone
    /\ ydone' = ydone \cup {k}
    /\ IF k \in yst.installed /\ k \in ytree /\ k \in yinfo
       THEN UNCHANGED <<ytree, yinfo, yart, yst>>
       ELSE /\ yart' = yart \cup {k}
            /\ ytree' = ytree \cup {k}
            /\ yinfo' = yinfo \cup {k}
            /\ yst' = [yst EXCEPT !.installed = @ \cup {k}]
    /\ UNCHANGED <<yreq, ysaved, ycmd, ydry, ypc, ysaves, ybefore>>

\* finalizeInstall: SaveStore.
dryFinalizeInstall ==
    /\ ypc = "install"
    /\ ydone = yreq
    /\ ysaved' = yst
    /\ ysaves' = ysaves + 1
    /\ ypc' = "idle"
    /\ UNCHANGED <<yreq, ytree, yinfo, yart, yst, ycmd, ydry, ydone, ybefore>>

\* buildReachable and removeUnused: the installed collections that no root
\* selects are counted and, unless the run is dry, removed with their .info
\* directory, their artifact and their installed entry.
dryRemoveUnused ==
    /\ ypc = "remove"
    /\ IF ydry
       THEN UNCHANGED <<ytree, yinfo, yart, yst>>
       ELSE /\ ytree' = ytree \cap yreq
            /\ yinfo' = yinfo \ (ytree \ yreq)
            /\ yart' = yart \ (ytree \ yreq)
            /\ yst' = [yst EXCEPT !.installed = @ \ (ytree \ yreq)]
    /\ ypc' = "finalize"
    /\ UNCHANGED <<yreq, ysaved, ycmd, ydry, ydone, ysaves, ybefore>>

\* finalizeCleanup: SaveStore unless the run is dry.
dryFinalizeCleanup ==
    /\ ypc = "finalize"
    /\ IF ydry
       THEN UNCHANGED <<ysaved, ysaves>>
       ELSE ysaved' = yst /\ ysaves' = ysaves + 1
    /\ ypc' = "idle"
    /\ UNCHANGED <<yreq, ytree, yinfo, yart, yst, ycmd, ydry, ydone, ybefore>>

(***************************************************************************)
(* loadVersionsListCached for one versions URL.  A versions list is the    *)
(* number of its versions; the server answers every page request with as   *)
(* many versions as the limit allows and with the total it reports, which  *)
(* can change from one request to the next.                                *)
(***************************************************************************)
VARIABLES
    gcache,     \* the versions cache entry of the URL, 0 when there is none
    gpolicy,    \* the cache policy of the call
    glimit,     \* the limit of the call of loadVersionsListCached in progress
    gfetches,   \* the page requests of the call: their limit and the total reported
    gpc,        \* "idle", "fetch" or "returned"
    gret        \* what the call returned

pageVars == <<gcache, gpolicy, glimit, gfetches, gpc, gret>>

versionLimit == 100

\* The totals the server reports are at most MaxGrowth above versionLimit.
MaxGrowth == 3
Totals == (versionLimit - 1)..(versionLimit + MaxGrowth)

NoPolicy == [Read |-> FALSE, Write |-> FALSE, TTL |-> 0]
NoList == [err |-> "none", versions |-> 0]

Min(a, b) == IF a <= b THEN a ELSE b

QuietPageVars ==
    /\ gcache = 0
    /\ gpolicy = NoPolicy
    /\ glimit = versionLimit
    /\ gfetches = <<>>
    /\ gpc = "idle"
    /\ gret = NoList

cachedVersionsList(cached, policy) == policy.Read /\ policy.TTL = 0 /\ cached # 0

cacheVersionsList(cached, policy, versions) ==
    IF policy.Write /\ policy.TTL = 0 THEN versions ELSE cached

\* The call loadVersionsListCached(versionsURL, versionLimit, policy): the
\* versions cache answers, or the first page is to be fetched.
loadVersionsListCached(policy) ==
    /\ gpc \in {"idle", "returned"}
    /\ gpolicy' = policy
    /\ glimit' = versionLimit
    /\ gfetches' = <<>>
    /\ IF cachedVersionsList(gcache, policy)
       THEN gpc' = "returned" /\ gret' = [err |-> "nil", versions |-> gcache]
       ELSE gpc' = "fetch" /\ gret' = NoList
    /\ UNCHANGED gcache

\* fetchVersionsPage fails.
fetchVersionsPageFails ==
    /\ gpc = "fetch"
    /\ gfetches' = Append(gfetches, [limit |-> glimit, total |-> 0])
    /\ gpc' = "returned"
    /\ gret' = [err |-> "fetch", versions |-> 0]
    /\ UNCHANGED <<gcache, gpolicy, glimit>>

\* fetchVersionsPage returns the page: with a total above the limit
\* loadVersionsListCached calls itself with limit = total, the versions cache
\* being as it was; else the list is cached and returned.
fetchVersionsPage(total) ==
    /\ gpc = "fetch"
    /\ gfetches' = Append(gfetches, [limit |-> glimit, total |-> total])
    /\ IF total > glimit
       THEN /\ glimit' = total
            /\ UNCHANGED <<gcache, gpc, gret>>
       ELSE /\ gcache' = cacheVersionsList(gcache, gpolicy, Min(glimit, total))
            /\ gpc' = "returned"
            /\ gret' = [err |-> "nil", versions |-> Min(glimit, total)]
            /\ UNCHANGED glimit
    /\ UNCHANGED gpolicy

(***************************************************************************)
(* Consecutive resolver calls of install runs on one cache: every call is  *)
(* resolveCollectionsInternal(roots, allowSnapshot = true, record = true)  *)
(* with the requirements and the --no-deps option of its run, against the  *)
(* snapshot that the earlier runs saved.  The metadata of the server is    *)
(* any metadata and does not change between the runs.                      *)
(***************************************************************************)
VARIABLES
    zmeta,      \* the dependency metadata of the server
    zstore,     \* the snapshot saved in the cache
    zst,        \* the store of the run in progress
    zreqs,      \* the roots of the run in progress
    znodeps,    \* cfg.NoDeps of the run in progress
    zret,       \* what the resolver returned to the run
    zpc,        \* "idle" or "resolved"
    zcalls      \* number of runs started

histVars == <<zmeta, zstore, zst, zreqs, znodeps, zret, zpc, zcalls>>

\* Number of runs in a behaviour.
MaxCalls == 2

QuietHistVars ==
    /\ zmeta = <<>>
    /\ zstore = EmptyStore
    /\ zst = EmptyStore
    /\ zreqs = <<>>
    /\ znodeps = FALSE
    /\ zret = NoIncrResult
    /\ zpc = "idle"
    /\ zcalls = 0

\* tryIncrementalResolveWithSnapshot after buildPreservedSnapshot, the server
\* having the metadata m.
resolveChangedOn(m, s, rts, changed, preserved) ==
    IF ~preserved.ok THEN NoReuse("preserved", "nil")
    ELSE mergeClosures(s, preserved, fullResolve(m, OnlyRoots(rts, changed)))

\* tryIncrementalResolve and tryIncrementalResolveWithSnapshot, the server
\* having the metadata m.
tryIncrementalResolveOn(m, s, rts) ==
    IF DOMAIN s.Requirements = {} THEN NoReuse("no previous requirements", "nil")
    ELSE IF unchangedRoots(rts, s.Requirements) = {} \/ changedRoots(rts, s.Requirements) = {}
      THEN NoReuse("nothing to reuse", "nil")
    ELSE IF ~loadSnapshotData(s) THEN NoReuse("no snapshot", "nil")
      ELSE resolveChangedOn(m, s, rts, changedRoots(rts, s.Requirements),
                            buildPreservedSnapshot(unchangedRoots(rts, s.Requirements),
                                                   s.Resolved, s.Graph))

\* resolveCollectionsInternal after resolveFromSnapshots: the error or the
\* result of the incremental reuse, and otherwise the full resolve.
resolveIncrementalOn(m, s, rts, incr) ==
    IF incr.err # "nil" \/ incr.ok
      THEN resolveIncremental(s, rts, incr)
      ELSE resolveFull(s, rts, fullResolve(m, rts))

\* resolveFromSnapshots
resolveFromSnapshotsOn(m, s, rts, snap) ==
    IF snap.ok
      THEN resolveFromSnapshots(s, rts, snap)
      ELSE resolveIncrementalOn(m, s, rts, tryIncrementalResolveOn(m, s, rts))

\* resolveCollectionsInternal(roots, true, true), the server having the
\* metadata m.
resolveCollectionsOn(m, s, rts, noDeps) ==
    IF noDeps
      THEN recordWithoutDeps(s, rts, resolveWithoutDeps(rts))
      ELSE resolveFromSnapshotsOn(m, s, rts, loadResolvedFromSnapshot(s, rts))

\* prepareInstallPlan of a run: LoadStore and resolveCollections.  A run with
\* --no-deps names every root with an exact version.
histPrepareInstallPlan(rts, noDeps) ==
    /\ zpc = "idle"
    /\ zcalls < MaxCalls
    /\ noDeps => \A f \in RootSet(rts) : rts[f].op = "="
    /\ zcalls' = zcalls + 1
    /\ zreqs' = rts
    /\ znodeps' = noDeps
    /\ zret' = resolveCollectionsOn(zmeta, zstore, rts, noDeps)
    /\ zst' = zret'.store
    /\ zpc' = "resolved"
    /\ UNCHANGED <<zmeta, zstore>>

\* finalizeInstall: SaveStore.
histFinalizeInstall ==
    /\ zpc = "resolved"
    /\ zret.err = "nil"
    /\ zstore' = zst
    /\ zpc' = "idle"
    /\ UNCHANGED <<zmeta, zst, zreqs, znodeps, zret, zcalls>>

\* The run ends without SaveStore: the resolver or a later step failed.
histRunFails ==
    /\ zpc = "resolved"
    /\ zpc' = "idle"
    /\ UNCHANGED <<zmeta, zstore, zst, zreqs, znodeps, zret, zcalls>>

(***************************************************************************)
(* Specifications.                                                         *)
(***************************************************************************)
vars == <<lockVars, saveVars, installVars, resolveVars, runVars, ctlVars, s3Vars, levelVars, incrVars, dlVars, cleanVars, snapVars, httpVars, archiveVars, markerVars, probeVars, refreshVars, dryVars, pageVars, histVars>>

LockOnly == UNCHANGED <<saveVars, installVars, resolveVars, runVars, ctlVars, s3Vars, levelVars, incrVars, dlVars, cleanVars, snapVars, httpVars, archiveVars, markerVars, probeVars, refreshVars, dryVars, pageVars, histVars>>
SaveOnly == UNCHANGED <<lockVars, installVars, resolveVars, runVars, ctlVars, s3Vars, levelVars, incrVars, dlVars, cleanVars, snapVars, httpVars, archiveVars, markerVars, probeVars, refreshVars, dryVars, pageVars, histVars>>
InstallOnly == UNCHANGED <<lockVars, saveVars, resolveVars, runVars, ctlVars, s3Vars, levelVars, incrVars, dlVars, cleanVars, snapVars, httpVars, archiveVars, markerVars, probeVars, refreshVars, dryVars, pageVars, histVars>>
ResolveOnly == UNCHANGED <<lockVars, saveVars, installVars, runVars, ctlVars, s3Vars, levelVars, incrVars, dlVars, cleanVars, snapVars, httpVars, archiveVars, markerVars, probeVars, refreshVars, dryVars, pageVars, histVars>>
RunsOnly == UNCHANGED <<lockVars, saveVars, installVars, resolveVars, ctlVars, s3Vars, levelVars, incrVars, dlVars, cleanVars, snapVars, httpVars, archiveVars, markerVars, probeVars, refreshVars, dryVars, pageVars, histVars>>

CtlOnly == UNCHANGED <<lockVars, saveVars, installVars, resolveVars, runVars, s3Vars, levelVars, incrVars, dlVars, cleanVars, snapVars, httpVars, archiveVars, markerVars, probeVars, refreshVars, dryVars, pageVars, histVars>>

S3Only == UNCHANGED <<lockVars, saveVars, installVars, resolveVars, runVars, ctlVars, levelVars, incrVars, dlVars, cleanVars, snapVars, httpVars, archiveVars, markerVars, probeVars, refreshVars, dryVars, pageVars, histVars>>

LevelsOnly == UNCHANGED <<lockVars, saveVars, installVars, resolveVars, runVars, ctlVars, s3Vars, incrVars, dlVars, cleanVars, snapVars, httpVars, archiveVars, markerVars, probeVars, refreshVars, dryVars, pageVars, histVars>>

IncrOnly == UNCHANGED <<lockVars, saveVars, installVars, resolveVars, runVars, ctlVars, s3Vars, levelVars, dlVars, cleanVars, snapVars, httpVars, archiveVars, markerVars, probeVars, refreshVars, dryVars, pageVars, histVars>>

DlOnly == UNCHANGED <<lockVars, saveVars, installVars, resolveVars, runVars, ctlVars, s3Vars, levelVars, incrVars, cleanVars, snapVars, httpVars, archiveVars, markerVars, probeVars, refreshVars, dryVars, pageVars, histVars>>

CleanOnly == UNCHANGED <<lockVars, saveVars, installVars, resolveVars, runVars, ctlVars, s3Vars, levelVars, incrVars, dlVars, snapVars, httpVars, archiveVars, markerVars, probeVars, refreshVars, dryVars, pageVars, histVars>>

SnapOnly == UNCHANGED <<lockVars, saveVars, installVars, resolveVars, runVars, ctlVars, s3Vars, levelVars, incrVars, dlVars, cleanVars, httpVars, archiveVars, markerVars, probeVars, refreshVars, dryVars, pageVars, histVars>>

HttpOnly == UNCHANGED <<lockVars, saveVars, installVars, resolveVars, runVars, ctlVars, s3Vars, levelVars, incrVars, dlVars, cleanVars, snapVars, archiveVars, markerVars, probeVars, refreshVars, dryVars, pageVars, histVars>>

ArchiveOnly == UNCHANGED <<lockVars, saveVars, installVars, resolveVars, runVars, ctlVars, s3Vars, levelVars, incrVars, dlVars, cleanVars, snapVars, httpVars, markerVars, probeVars, refreshVars, dryVars, pageVars, histVars>>

MarkerOnly == UNCHANGED <<lockVars, saveVars, installVars, resolveVars, runVars, ctlVars, s3Vars, levelVars, incrVars, dlVars, cleanVars, snapVars, httpVars, archiveVars, probeVars, refreshVars, dryVars, pageVars, histVars>>

ProbeOnly == UNCHANGED <<lockVars, saveVars, installVars, resolveVars, runVars, ctlVars, s3Vars, levelVars, incrVars, dlVars, cleanVars, snapVars, httpVars, archiveVars, markerVars, refreshVars, dryVars, pageVars, histVars>>

RefreshOnly == UNCHANGED <<lockVars, saveVars, installVars, resolveVars, runVars, ctlVars, s3Vars, levelVars, incrVars, dlVars, cleanVars, snapVars, httpVars, archiveVars, markerVars, probeVars, dryVars, pageVars, histVars>>

DryOnly == UNCHANGED <<lockVars, saveVars, installVars, resolveVars, runVars, ctlVars, s3Vars, levelVars, incrVars, dlVars, cleanVars, snapVars, httpVars, archiveVars, markerVars, probeVars, refreshVars, pageVars, histVars>>

PageOnly == UNCHANGED <<lockVars, saveVars, installVars, resolveVars, runVars, ctlVars, s3Vars, levelVars, incrVars, dlVars, cleanVars, snapVars, httpVars, archiveVars, markerVars, probeVars, refreshVars, dryVars, histVars>>

HistOnly == UNCHANGED <<lockVars, saveVars, installVars, resolveVars, runVars, ctlVars, s3Vars, levelVars, incrVars, dlVars, cleanVars, snapVars, httpVars, archiveVars, markerVars, probeVars, refreshVars, dryVars, pageVars>>

QuietLockVars == InitLockVars /\ clearCache = [p \in Procs |-> FALSE]

QuietSaveVars ==
    /\ disk = [b \in Buckets |-> 0]
    /\ diskSchema = StoreSnapshotSchemaVersion
    /\ mem = 0
    /\ spc = "idle"
    /\ sstep = 1
    /\ loaded = NotLoaded

\* Processes that contend for the lock of one cache directory, none of them
\* with clear_cache; a process can be killed at any point.
InitLock == QuietLockVars /\ QuietSaveVars /\ QuietInstallVars /\ QuietResolveVars /\ QuietRunVars /\ QuietCtlVars /\ QuietS3Vars /\ QuietLevelVars /\ QuietIncrVars /\ QuietDlVars /\ QuietCleanVars /\ QuietSnapVars /\ QuietHttpVars /\ QuietArchiveVars /\ QuietMarkerVars /\ QuietProbeVars /\ QuietRefreshVars /\ QuietDryVars /\ QuietPageVars /\ QuietHistVars

NextLock ==
    \/ \E p \in Procs : tryCreateLock(p) /\ LockOnly
    \/ \E p \in Procs : writeLockFile(p) /\ LockOnly
    \/ \E p \in Procs : readLockInfo(p) /\ LockOnly
    \/ \E p \in Procs : handleExistingLock(p) /\ LockOnly
    \/ \E p \in Procs : removeStaleLock(p) /\ LockOnly
    \/ \E p \in Procs : LoadStore(p) /\ LockOnly
    \/ \E p \in Procs : releaseLock(p) /\ LockOnly
    \/ \E p \in Procs : releaseRemove(p) /\ LockOnly
    \/ \E p \in Procs : Crash(p) /\ LockOnly

SpecLock == InitLock /\ [][NextLock]_vars

\* The same processes as install runs with any clear_cache option.
InitRunLock ==
    /\ QuietHistVars
    /\ QuietPageVars
    /\ QuietDryVars
    /\ QuietRefreshVars
    /\ QuietProbeVars
    /\ QuietMarkerVars
    /\ QuietArchiveVars
    /\ QuietHttpVars
    /\ InitLockVars /\ clearCache \in [Procs -> BOOLEAN]
    /\ QuietSaveVars /\ QuietInstallVars /\ QuietResolveVars /\ QuietRunVars /\ QuietCtlVars /\ QuietS3Vars /\ QuietLevelVars /\ QuietIncrVars /\ QuietDlVars /\ QuietCleanVars /\ QuietSnapVars

NextRunLock ==
    \/ \E p \in Procs : tryCreateLock(p) /\ LockOnly
    \/ \E p \in Procs : writeLockFile(p) /\ LockOnly
    \/ \E p \in Procs : readLockInfo(p) /\ LockOnly
    \/ \E p \in Procs : handleExistingLock(p) /\ LockOnly
    \/ \E p \in Procs : removeStaleLock(p) /\ LockOnly
    \/ \E p \in Procs : LoadStore(p) /\ LockOnly
    \/ \E p \in Procs : ClearCacheFiles(p) /\ LockOnly
    \/ \E p \in Procs : releaseLock(p) /\ LockOnly
    \/ \E p \in Procs : releaseRemove(p) /\ LockOnly
    \/ \E p \in Procs : Crash(p) /\ LockOnly

SpecRunLock == InitRunLock /\ [][NextRunLock]_vars

\* Runs that load, change and save the snapshot one after the other.
InitSave == QuietLockVars /\ InitSaveVars /\ QuietInstallVars /\ QuietResolveVars /\ QuietRunVars /\ QuietCtlVars /\ QuietS3Vars /\ QuietLevelVars /\ QuietIncrVars /\ QuietDlVars /\ QuietCleanVars /\ QuietSnapVars /\ QuietHttpVars /\ QuietArchiveVars /\ QuietMarkerVars /\ QuietProbeVars /\ QuietRefreshVars /\ QuietDryVars /\ QuietPageVars /\ QuietHistVars

NextSave ==
    \/ Load /\ SaveOnly
    \/ Save /\ SaveOnly
    \/ saveBucket /\ SaveOnly
    \/ runSaveStepsFail /\ SaveOnly

SpecSave == InitSave /\ [][NextSave]_vars

\* One install run over any graph of the candidate edges and any worker count.
InitInstall ==
    /\ QuietHistVars
    /\ QuietPageVars
    /\ QuietDryVars
    /\ QuietRefreshVars
    /\ QuietProbeVars
    /\ QuietMarkerVars
    /\ QuietArchiveVars
    /\ QuietHttpVars
    /\ QuietLockVars /\ QuietSaveVars /\ QuietResolveVars /\ QuietRunVars /\ QuietCtlVars /\ QuietS3Vars /\ QuietLevelVars /\ QuietIncrVars /\ QuietDlVars /\ QuietCleanVars /\ QuietSnapVars
    /\ iGraph \in {GraphOf(E) : E \in SUBSET CandidateEdges}
    /\ workers \in 1..MaxWorkers
    /\ ipc = "start"
    /\ ilevels = <<>>
    /\ ilevel = 1
    /\ itask = [k \in Keys |-> "none"]
    /\ iwait = [k \in Keys |-> NoWait]
    /\ failures = 0
    /\ iret = NoReturn
    /\ pdone = [k \in Keys |-> "nil"]
    /\ pmeta = [k \in Keys |-> "nil"]
    /\ perrs = [k \in Keys |-> "nil"]
    /\ closes = [k \in Keys |-> 0]
    /\ ptask = [k \in Keys |-> "none"]

NextInstall ==
    \/ startPrefetcher /\ InstallOnly
    \/ planLevels /\ InstallOnly
    \/ \E k \in Keys : startInstall(k) /\ InstallOnly
    \/ \E k \in Keys : Wait(k) /\ InstallOnly
    \/ \E k \in Keys : installCollection(k) /\ InstallOnly
    \/ levelDone /\ InstallOnly
    \/ SaveStore /\ InstallOnly
    \/ finalizeInstall /\ InstallOnly
    \/ \E k \in Keys : prefetchRecv(k) /\ InstallOnly
    \/ \E k \in Keys : finish(k) /\ InstallOnly
    \/ \E k \in Keys : finishClose(k) /\ InstallOnly

SpecInstall == InitInstall /\ [][NextInstall]_vars

\* Dependency constraints a version can declare, and the dependency maps of
\* a collection: none, or one dependency on the next collection.
DepConstraints == {AnyVersion} \cup {Lt(v) : v \in 2..NumVersions}
NextFqdn(f) == (f % NumFqdns) + 1
DepChoices(f) ==
    {NoDeps} \cup {[d \in Fqdns |-> IF d = NextFqdn(f) THEN c ELSE NoDep] : c \in DepConstraints}
RootConstraints == {AnyVersion, Eq(1)}

\* A full resolve of any non-empty set of roots against any server metadata
\* of the family above.
InitResolve ==
    /\ QuietHistVars
    /\ QuietPageVars
    /\ QuietDryVars
    /\ QuietRefreshVars
    /\ QuietProbeVars
    /\ QuietMarkerVars
    /\ QuietArchiveVars
    /\ QuietHttpVars
    /\ QuietLockVars /\ QuietSaveVars /\ QuietInstallVars /\ QuietRunVars /\ QuietCtlVars /\ QuietS3Vars /\ QuietLevelVars /\ QuietIncrVars /\ QuietDlVars /\ QuietCleanVars /\ QuietSnapVars
    /\ meta \in [Fqdns -> [Versions -> UNION {DepChoices(f) : f \in Fqdns}]]
    /\ \A f \in Fqdns : \A v \in Versions : meta[f][v] \in DepChoices(f)
    /\ roots \in [Fqdns -> RootConstraints \cup {NoDep}]
    /\ RootSet(roots) # {}
    /\ rstate = EmptyResolverState
    /\ rpc = "new"
    /\ rret = NoResolution
    /\ rseen = {}

NextResolve ==
    \/ newResolverState /\ ResolveOnly
    \/ resolveQueue /\ ResolveOnly
    \/ resolveReturn /\ ResolveOnly

SpecResolve == InitResolve /\ [][NextResolve]_vars

\* Install and cleanup runs of one project, the user editing the
\* requirements in between.
InitRuns ==
    /\ QuietHistVars
    /\ QuietPageVars
    /\ QuietDryVars
    /\ QuietRefreshVars
    /\ QuietProbeVars
    /\ QuietMarkerVars
    /\ QuietArchiveVars
    /\ QuietHttpVars
    /\ QuietLockVars /\ QuietSaveVars /\ QuietInstallVars /\ QuietResolveVars /\ QuietCtlVars /\ QuietS3Vars /\ QuietLevelVars /\ QuietIncrVars /\ QuietDlVars /\ QuietCleanVars /\ QuietSnapVars
    /\ \E c \in RunRootConstraints : reqs = RunRoots(c)
    /\ registry = FALSE
    /\ persisted = EmptyStore
    /\ st = EmptyStore
    /\ tree = [f \in Fqdns |-> NoTree]
    /\ infoDirs = {}
    /\ runpc = "idle"
    /\ runResolved = [f \in Fqdns |-> 0]
    /\ runGraph = <<>>
    /\ runPath = "none"
    /\ runLevels = <<>>
    /\ runLevel = 1
    /\ runDone = {}
    /\ runFailures = 0
    /\ nruns = 0
    /\ prev = NoPrev
    /\ second = NotSecond
    /\ runBefore = EmptyStore
    /\ runEnded = "none"
    /\ ici = NoSequence

NextRuns ==
    \/ editRequirements /\ RunsOnly
    \/ prepareInstallPlan /\ RunsOnly
    \/ \E key \in Fqdns \X Versions : installKey(key) /\ RunsOnly
    \/ runLevelDone /\ RunsOnly
    \/ finalizeRun /\ RunsOnly
    \/ cleanupStart /\ RunsOnly

SpecRuns == InitRuns /\ [][NextRuns]_vars

\* Install and cleanup runs of the projects of one cache directory, one after
\* the other, every step that can fail failing or not.
InitCtl ==
    /\ QuietHistVars
    /\ QuietPageVars
    /\ QuietDryVars
    /\ QuietRefreshVars
    /\ QuietProbeVars
    /\ QuietMarkerVars
    /\ QuietArchiveVars
    /\ QuietHttpVars
    /\ QuietLockVars /\ QuietSaveVars /\ QuietInstallVars /\ QuietResolveVars /\ QuietRunVars
    /\ QuietCtlVars /\ QuietS3Vars /\ QuietLevelVars /\ QuietIncrVars /\ QuietDlVars /\ QuietCleanVars /\ QuietSnapVars

NextCtl ==
    \/ startRun /\ CtlOnly
    \/ signalCancel /\ CtlOnly
    \/ backendOpen /\ CtlOnly
    \/ backendLock /\ CtlOnly
    \/ backendLoadStore /\ CtlOnly
    \/ backendClearFiles /\ CtlOnly
    \/ backendRecordProject /\ CtlOnly
    \/ runInstallPlan /\ CtlOnly
    \/ runInstallLevels /\ CtlOnly
    \/ runInstallFinalize /\ CtlOnly
    \/ cleanupLoadRegistry /\ CtlOnly
    \/ cleanupReachable /\ CtlOnly
    \/ cleanupRemoveUnused /\ CtlOnly
    \/ runDeferred /\ CtlOnly

SpecCtl == InitCtl /\ [][NextCtl]_vars

\* Processes that contend for the S3 lock while time passes; the lock object
\* of an earlier run that never released it may be present.
InitS3 ==
    /\ QuietHistVars
    /\ QuietPageVars
    /\ QuietDryVars
    /\ QuietRefreshVars
    /\ QuietProbeVars
    /\ QuietMarkerVars
    /\ QuietArchiveVars
    /\ QuietHttpVars
    /\ QuietLockVars /\ QuietSaveVars /\ QuietInstallVars /\ QuietResolveVars /\ QuietRunVars
    /\ QuietCtlVars /\ QuietLevelVars /\ QuietIncrVars /\ QuietDlVars /\ QuietCleanVars /\ QuietSnapVars
    /\ s3lock \in {NoObject, [owner |-> 0, time |-> 0]}
    /\ s3now = 0
    /\ s3pc = [p \in Procs |-> "put"]
    /\ s3put = [p \in Procs |-> -1]

NextS3 ==
    \/ \E p \in Procs : acquireLock(p) /\ S3Only
    \/ \E p \in Procs : headObject(p) /\ S3Only
    \/ \E p \in Procs : deleteExpired(p) /\ S3Only
    \/ \E p \in Procs : putLockAgain(p) /\ S3Only
    \/ \E p \in Procs : s3Release(p) /\ S3Only
    \/ Tick /\ S3Only

SpecS3 == InitS3 /\ [][NextS3]_vars

\* buildInstallLevels called on any graph over the nodes.
InitLevels ==
    /\ QuietHistVars
    /\ QuietPageVars
    /\ QuietDryVars
    /\ QuietRefreshVars
    /\ QuietProbeVars
    /\ QuietMarkerVars
    /\ QuietArchiveVars
    /\ QuietHttpVars
    /\ QuietLockVars /\ QuietSaveVars /\ QuietInstallVars /\ QuietResolveVars /\ QuietRunVars
    /\ QuietCtlVars /\ QuietS3Vars /\ QuietIncrVars /\ QuietDlVars /\ QuietCleanVars /\ QuietSnapVars
    /\ lgraph \in Graphs
    /\ lvpc = "input"
    /\ lres = NoLevels

NextLevels ==
    \/ callBuildInstallLevels /\ LevelsOnly

SpecLevels == InitLevels /\ [][NextLevels]_vars

InitIncr ==
    /\ QuietHistVars
    /\ QuietPageVars
    /\ QuietDryVars
    /\ QuietRefreshVars
    /\ QuietProbeVars
    /\ QuietMarkerVars
    /\ QuietArchiveVars
    /\ QuietHttpVars
    /\ QuietLockVars /\ QuietSaveVars /\ QuietInstallVars /\ QuietResolveVars /\ QuietRunVars
    /\ QuietCtlVars /\ QuietS3Vars /\ QuietLevelVars /\ QuietDlVars /\ QuietCleanVars /\ QuietSnapVars
    /\ \E rts \in IncrRoots, resolved \in [Fqdns -> 0..NumVersions] :
         \E U \in SUBSET RootSet(rts), graph \in IncrGraphs(Collections(resolved)) :
            /\ qroots = rts
            /\ qsnap = IncrSnapshot(rts, U, resolved, graph)
    /\ qpc = "input"
    /\ qret = NoIncrResult

NextIncr ==
    \/ callResolveCollections /\ IncrOnly

SpecIncr == InitIncr /\ [][NextIncr]_vars

\* The key is registered with the prefetcher when the cache is in use and
\* the artifact store does not have its artifact (buildPrefetchTasks).
InitDl ==
    /\ QuietHistVars
    /\ QuietPageVars
    /\ QuietDryVars
    /\ QuietRefreshVars
    /\ QuietProbeVars
    /\ QuietMarkerVars
    /\ QuietArchiveVars
    /\ QuietHttpVars
    /\ QuietLockVars /\ QuietSaveVars /\ QuietInstallVars /\ QuietResolveVars /\ QuietRunVars
    /\ QuietCtlVars /\ QuietS3Vars /\ QuietLevelVars /\ QuietIncrVars /\ QuietCleanVars /\ QuietSnapVars
    /\ dcfg \in [sha : BOOLEAN, noCache : BOOLEAN]
    /\ dstore \in {"none", "match"}
    /\ ddl = [p \in Paths |-> NoDownload]
    /\ dstaging = [p \in Paths |-> FALSE]
    /\ dpre = IF ~dcfg.noCache /\ dstore = "none"
                THEN [NoPrefetch EXCEPT !.pc = "queued"] ELSE NoPrefetch
    /\ dinst = NewWorker
    /\ dmarker = "none"
    /\ dinstalled = "none"
    /\ dfailures = 0

NextDl ==
    \/ prefetchMetadata /\ DlOnly
    \/ \E p \in Paths : downloadCollectionToCache(p) /\ DlOnly
    \/ \E p \in Paths : verifyDownloadSHA(p) /\ DlOnly
    \/ \E p \in Paths : commitDownload(p) /\ DlOnly
    \/ prefetchFinish /\ DlOnly
    \/ waitForPrefetch /\ DlOnly
    \/ prepareInstall /\ DlOnly
    \/ fetchArtifactReturn /\ DlOnly
    \/ extractAndRecord /\ DlOnly

SpecDl == InitDl /\ [][NextDl]_vars

InitClean ==
    /\ QuietHistVars
    /\ QuietPageVars
    /\ QuietDryVars
    /\ QuietRefreshVars
    /\ QuietProbeVars
    /\ QuietMarkerVars
    /\ QuietArchiveVars
    /\ QuietHttpVars
    /\ QuietLockVars /\ QuietSaveVars /\ QuietInstallVars /\ QuietResolveVars /\ QuietRunVars
    /\ QuietCtlVars /\ QuietS3Vars /\ QuietLevelVars /\ QuietIncrVars /\ QuietDlVars /\ QuietSnapVars
    /\ kroots \in [Projects -> SUBSET Fqdns]
    /\ kbroken \in SUBSET Projects
    /\ kstart \in [Projects -> [Fqdns -> 0..NumVersions]]
    /\ ktree = kstart
    /\ kvisited = {}
    /\ korder = <<>>
    /\ kindex = {}
    /\ kbyKey = <<>>
    /\ kreachable = {}
    /\ kpc = "build"

NextClean ==
    \/ \E p \in Projects : visitProject(p) /\ CleanOnly
    \/ removeUnused /\ CleanOnly

SpecClean == InitClean /\ [][NextClean]_vars

\* One run on either backend: LoadStore of what the cache holds, the run fills
\* its store, SaveStore, and the LoadStore of the next run.
InitSnap ==
    /\ QuietHistVars
    /\ QuietPageVars
    /\ QuietDryVars
    /\ QuietRefreshVars
    /\ QuietProbeVars
    /\ QuietMarkerVars
    /\ QuietArchiveVars
    /\ QuietHttpVars
    /\ QuietLockVars /\ QuietSaveVars /\ QuietInstallVars /\ QuietResolveVars /\ QuietRunVars
    /\ QuietCtlVars /\ QuietS3Vars /\ QuietLevelVars /\ QuietIncrVars /\ QuietDlVars /\ QuietCleanVars
    /\ bkind \in {"local", "s3"}
    /\ bdisk \in OldSnapshots
    /\ bstore = NoStore
    /\ bsaved = NoStore
    /\ bloaded = NotCalled
    /\ bpc = "start"
    /\ bclock = 2

NextSnap ==
    \/ callLoadStore /\ SnapOnly
    \/ \E data \in StoreData : setStore(data) /\ SnapOnly
    \/ callSaveStore /\ SnapOnly

SpecSnap == InitSnap /\ [][NextSnap]_vars

\* Calls of FetchJSONWithCachePolicy for one URL, on a cache that is empty or
\* holds an entry of a loaded snapshot, with any policy and any server answer.
InitHttp ==
    /\ QuietHistVars
    /\ QuietPageVars
    /\ QuietDryVars
    /\ QuietRefreshVars
    /\ QuietProbeVars
    /\ QuietMarkerVars
    /\ QuietArchiveVars
    /\ QuietLockVars /\ QuietSaveVars /\ QuietInstallVars /\ QuietResolveVars /\ QuietRunVars
    /\ QuietCtlVars /\ QuietS3Vars /\ QuietLevelVars /\ QuietIncrVars /\ QuietDlVars /\ QuietCleanVars
    /\ QuietSnapVars
    /\ hcache \in {EmptyCache} \cup {SetAPICache(EmptyCache, apiCacheKey(TheUrl), e) : e \in LoadedEntries}
    /\ hnow = 0
    /\ hcall = NoCall

NextHttp ==
    \/ \E policy \in Policies, resp \in Responses : fetchJSON(policy, resp) /\ HttpOnly
    \/ clockTick /\ HttpOnly
    \/ clearCaches /\ HttpOnly

SpecHttp == InitHttp /\ [][NextHttp]_vars

\* The extraction of any archive of at most MaxEntries entries into an empty
\* destination directory.
InitArchive ==
    /\ QuietHistVars
    /\ QuietPageVars
    /\ QuietDryVars
    /\ QuietRefreshVars
    /\ QuietProbeVars
    /\ QuietMarkerVars
    /\ QuietLockVars /\ QuietSaveVars /\ QuietInstallVars /\ QuietResolveVars /\ QuietRunVars
    /\ QuietCtlVars /\ QuietS3Vars /\ QuietLevelVars /\ QuietIncrVars /\ QuietDlVars /\ QuietCleanVars
    /\ QuietSnapVars /\ QuietHttpVars
    /\ xfs = EmptyDst
    /\ xlast = NoHeader
    /\ xerr = "nil"
    /\ xstate = "reading"
    /\ xcount = 0

NextArchive ==
    \/ \E hdr \in Headers : nextEntry(hdr) /\ ArchiveOnly
    \/ endOfArchive /\ ArchiveOnly

SpecArchive == InitArchive /\ [][NextArchive]_vars

\* Calls of extractCollection for the versions of one collection, run after
\* run, on an install path that does not exist at first.
InitMarker ==
    /\ QuietHistVars
    /\ QuietPageVars
    /\ QuietDryVars
    /\ QuietRefreshVars
    /\ QuietProbeVars
    /\ QuietLockVars /\ QuietSaveVars /\ QuietInstallVars /\ QuietResolveVars /\ QuietRunVars
    /\ QuietCtlVars /\ QuietS3Vars /\ QuietLevelVars /\ QuietIncrVars /\ QuietDlVars /\ QuietCleanVars
    /\ QuietSnapVars /\ QuietHttpVars /\ QuietArchiveVars
    /\ epath = NoPath
    /\ epc = "idle"
    /\ eart = 1
    /\ eext = "none"
    /\ etrusted = "none"

NextMarker ==
    \/ \E a \in ArtifactIds : extractCollectionCall(a) /\ MarkerOnly
    \/ statCacheTag /\ MarkerOnly
    \/ removeEntry /\ MarkerOnly
    \/ removeAllReturns /\ MarkerOnly
    \/ mkdirInstallPath /\ MarkerOnly
    \/ extractFile /\ MarkerOnly
    \/ extractReturns /\ MarkerOnly
    \/ writeCacheTag /\ MarkerOnly
    \/ killed /\ MarkerOnly

SpecMarker == InitMarker /\ [][NextMarker]_vars

\* loadRootMetadataCached for collections with and without a source of their
\* own, under a configured server or none, the server answering as it likes.
InitProbe ==
    /\ QuietHistVars
    /\ QuietPageVars
    /\ QuietDryVars
    /\ QuietRefreshVars
    /\ QuietLockVars /\ QuietSaveVars /\ QuietInstallVars /\ QuietResolveVars /\ QuietRunVars
    /\ QuietCtlVars /\ QuietS3Vars /\ QuietLevelVars /\ QuietIncrVars /\ QuietDlVars /\ QuietCleanVars
    /\ QuietSnapVars /\ QuietHttpVars /\ QuietArchiveVars /\ QuietMarkerVars
    /\ userver \in ServerBases \cup {NoBase}
    /\ ureq = NoBase
    /\ ucol = NoBase
    /\ ucands = <<>>
    /\ utried = <<>>
    /\ upc = "idle"
    /\ uerr = "nil"

NextProbe ==
    \/ \E source \in SourceBases \cup {NoBase} : loadRootMetadataCached(source) /\ ProbeOnly
    \/ \E outcome \in FetchOutcomes : probeCandidate(outcome) /\ ProbeOnly
    \/ candidatesExhausted /\ ProbeOnly
    \/ nextCollection /\ ProbeOnly

SpecProbe == InitProbe /\ [][NextProbe]_vars

\* Runs of one project with one root, with every combination of --refresh and
\* --no-cache, while the server publishes and the user edits.
InitRefresh ==
    /\ QuietHistVars
    /\ QuietPageVars
    /\ QuietDryVars
    /\ QuietLockVars /\ QuietSaveVars /\ QuietInstallVars /\ QuietResolveVars /\ QuietRunVars
    /\ QuietCtlVars /\ QuietS3Vars /\ QuietLevelVars /\ QuietIncrVars /\ QuietDlVars /\ QuietCleanVars
    /\ QuietSnapVars /\ QuietHttpVars /\ QuietArchiveVars /\ QuietMarkerVars /\ QuietProbeVars
    /\ vhighest = 1
    /\ vreq \in RefreshConstraints
    /\ vsnap = NoSnap
    /\ vapi = EmptyCache
    /\ vdeps = {}
    /\ vnow = 0
    /\ vlast = NoRefreshRun

NextRefresh ==
    \/ \E refresh \in BOOLEAN, noCache \in BOOLEAN, up \in BOOLEAN :
          resolveRun(refresh, noCache, up) /\ RefreshOnly
    \/ publishVersion /\ RefreshOnly
    \/ \E c \in RefreshConstraints : changeRequirement(c) /\ RefreshOnly
    \/ timePasses /\ RefreshOnly

SpecRefresh == InitRefresh /\ [][NextRefresh]_vars

\* Install and cleanup runs of one project, dry or not, the user editing the
\* requirements in between.
InitDry ==
    /\ QuietHistVars
    /\ QuietPageVars
    /\ QuietLockVars /\ QuietSaveVars /\ QuietInstallVars /\ QuietResolveVars /\ QuietRunVars
    /\ QuietCtlVars /\ QuietS3Vars /\ QuietLevelVars /\ QuietIncrVars /\ QuietDlVars /\ QuietCleanVars
    /\ QuietSnapVars /\ QuietHttpVars /\ QuietArchiveVars /\ QuietMarkerVars /\ QuietProbeVars
    /\ QuietRefreshVars
    /\ yreq \in SUBSET DryKeys
    /\ ytree = {}
    /\ yinfo = {}
    /\ yart = {}
    /\ ysaved = EmptyBuckets
    /\ yst = EmptyBuckets
    /\ ycmd = "none"
    /\ ydry = FALSE
    /\ ypc = "idle"
    /\ ydone = {}
    /\ ysaves = 0
    /\ ybefore = NothingBefore

NextDry ==
    \/ \E rts \in SUBSET DryKeys : dryEditRequirements(rts) /\ DryOnly
    \/ \E cmd \in {"install", "cleanup"}, dry \in BOOLEAN : dryStart(cmd, dry) /\ DryOnly
    \/ dryPrepareInstallPlan /\ DryOnly
    \/ \E k \in DryKeys : dryInstallCollection(k) /\ DryOnly
    \/ dryFinalizeInstall /\ DryOnly
    \/ dryRemoveUnused /\ DryOnly
    \/ dryFinalizeCleanup /\ DryOnly

SpecDry == InitDry /\ [][NextDry]_vars

\* Calls of loadVersionsListCached under the policies of PolicyForConstraint,
\* the server reporting any total.
InitPage ==
    /\ QuietHistVars
    /\ QuietLockVars /\ QuietSaveVars /\ QuietInstallVars /\ QuietResolveVars /\ QuietRunVars
    /\ QuietCtlVars /\ QuietS3Vars /\ QuietLevelVars /\ QuietIncrVars /\ QuietDlVars /\ QuietCleanVars
    /\ QuietSnapVars /\ QuietHttpVars /\ QuietArchiveVars /\ QuietMarkerVars /\ QuietProbeVars
    /\ QuietRefreshVars /\ QuietDryVars
    /\ gcache = 0
    /\ gpolicy = NoPolicy
    /\ glimit = versionLimit
    /\ gfetches = <<>>
    /\ gpc = "idle"
    /\ gret = NoList

NextPage ==
    \/ \E noCache \in BOOLEAN, refresh \in BOOLEAN, exact \in BOOLEAN :
          loadVersionsListCached(PolicyForConstraint(noCache, refresh, exact)) /\ PageOnly
    \/ fetchVersionsPageFails /\ PageOnly
    \/ \E total \in Totals : fetchVersionsPage(total) /\ PageOnly

SpecPage == InitPage /\ [][NextPage]_vars

\* Install runs one after the other on one cache, with any requirements and
\* with or without --no-deps, against a server with any metadata.
InitHist ==
    /\ QuietLockVars /\ QuietSaveVars /\ QuietInstallVars /\ QuietResolveVars /\ QuietRunVars
    /\ QuietCtlVars /\ QuietS3Vars /\ QuietLevelVars /\ QuietIncrVars /\ QuietDlVars /\ QuietCleanVars
    /\ QuietSnapVars /\ QuietHttpVars /\ QuietArchiveVars /\ QuietMarkerVars /\ QuietProbeVars
    /\ QuietRefreshVars /\ QuietDryVars /\ QuietPageVars
    /\ zmeta \in [Fqdns -> [Versions -> UNION {DepChoices(f) : f \in Fqdns}]]
    /\ \A f \in Fqdns : \A v \in Versions : zmeta[f][v] \in DepChoices(f)
    /\ zstore = EmptyStore
    /\ zst = EmptyStore
    /\ zreqs = <<>>
    /\ znodeps = FALSE
    /\ zret = NoIncrResult
    /\ zpc = "idle"
    /\ zcalls = 0

NextHist ==
    \/ \E rts \in IncrRoots, noDeps \in BOOLEAN :
          RootSet(rts) # {} /\ histPrepareInstallPlan(rts, noDeps) /\ HistOnly
    \/ histFinalizeInstall /\ HistOnly
    \/ histRunFails /\ HistOnly

SpecHist == InitHist /\ [][NextHist]_vars


(***************************************************************************)
(* Properties.                                                             *)
(***************************************************************************)

\* C1: under every interleaving of the acquisition steps of the processes, at
\* most one live process holds the cache lock (acquisition returned a release
\* closure that has not run yet).
C1_MutualExclusion == Cardinality({p \in Procs : Holds(p)}) <= 1

\* C2: from the acquisition of the lock by an install run until its release
\* closure runs, the lock file exists with that process's payload, for every
\* option combination, clear_cache included.
C2_LockFileKept == \A p \in Procs : Holds(p) => lockFile = marshalLockPayload(p)

\* C3: a Load after a Save that failed or was interrupted part-way never
\* returns some buckets of the new run and other buckets of an older run: it
\* returns one complete snapshot or fails.
C3_NoMixedLoad ==
    DOMAIN loaded = Buckets => \A a, b \in Buckets : loaded[a] = loaded[b]

\* C4: for every finite set of roots and every fixed, finite server metadata
\* the worklist loop of the resolver terminates: the queue becomes empty or an
\* error is returned.  An iteration is a function of the resolverState and the
\* metadata, so the loop terminates exactly when it never comes back, with a
\* non-empty queue, to a resolverState of an earlier iteration.
C4_Terminates == ~(rpc = "queue" /\ rstate.queue # {} /\ rstate \in rseen)

\* Every graph key has a resolved entry with that version and every
\* dependency key is a key of the graph.
GraphConsistent(resolved, graph) ==
    /\ \A k \in DOMAIN graph : resolved[k[1]] = k[2]
    /\ \A k \in DOMAIN graph : graph[k] \subseteq DOMAIN graph

\* C5: the (resolved, graph) pair the resolver returns to an install run, on
\* every path and after any earlier install and cleanup runs on the cache:
\* every graph key has a resolved entry with that version and every
\* dependency key is a key of the graph.
C5_GraphConsistent == runPath # "none" => GraphConsistent(runResolved, runGraph)

\* C6: at the end of every install run, every Installed entry of the snapshot
\* has an install path that exists and holds the extract-done marker of the
\* entry's artifact_sha256.
C6_InstalledMarkers ==
    runpc = "idle" =>
      \A k \in DOMAIN persisted.Installed :
        /\ tree[persisted.Installed[k].InstallPath].exists
        /\ tree[persisted.Installed[k].InstallPath].marker = persisted.Installed[k].ArtifactSHA256

\* C7: no install task of level i+1 starts before every install task of
\* level i has finished, hence an install starts only after the installs of
\* all its dependencies in the graph have finished.
C7_LevelBarrier ==
    /\ \A i \in 1..Len(ilevels) : \A k \in ilevels[i] :
         Started(k) => \A j \in 1..(i - 1) : \A d \in ilevels[j] : Finished(d)
    /\ \A k \in Keys : Started(k) => \A d \in iGraph[k] : Finished(d)

\* C7 witness: an install with a dependency has started in a second level.
C7_Witness ==
    \E k \in Keys : Started(k) /\ iGraph[k] # {} /\ Len(ilevels) >= 2 /\ ilevel >= 2

FailedKeys == {k \in Keys : itask[k] = "failed"}

LaterLevelsNotStarted ==
    \A j \in (ilevel + 1)..Len(ilevels) : \A k \in ilevels[j] : ~Started(k)

C9_SaveAfterWorkers ==
    ipc = "saving" =>
      /\ \A k \in Keys : Started(k) => Finished(k)
      /\ \A k \in Keys : ptask[k] \notin {"queued", "fetch"}

PrefetchersGone == ipc # "start" /\ \A k \in Keys : ptask[k] \in {"none", "done"}

\* C10: the latch of a registered key is closed exactly once, a Wait on it
\* returns only after the close and returns the result that finish recorded
\* for the key; a Wait on a key that was not registered returns at once with
\* "no task".
C10_Latch ==
    \A k \in Keys :
      /\ closes[k] <= 1
      /\ closes[k] = 1 <=> pdone[k] = "closed"
      /\ (pdone[k] # "nil" /\ PrefetchersGone) => closes[k] = 1
      /\ (pdone[k] # "nil" /\ itask[k] \in {"install", "ok", "failed"}) =>
            /\ pdone[k] = "closed"
            /\ iwait[k] = [ok |-> TRUE, meta |-> pmeta[k], err |-> perrs[k]]
            /\ [meta |-> pmeta[k], err |-> perrs[k]] \in PrefetchOutcomes
      /\ (pdone[k] = "nil" /\ Started(k)) => (itask[k] # "waiting" /\ iwait[k] = NoWait)

\* C10 witness: a Wait returned a prefetch error after the close, and a Wait
\* on an unregistered key returned "no task".
C10_Witness ==
    /\ \E k \in Keys : iwait[k].ok /\ iwait[k].err = "err" /\ closes[k] = 1
    /\ \E k \in Keys : pdone[k] = "nil" /\ Started(k) /\ ~iwait[k].ok

\* C11: every install or cleanup run that acquired the cache lock has invoked
\* the release closure by the time it has returned, on every return path
\* (success, an error after the acquisition, cancellation by a signal, and
\* the early return of cleanup when no project is registered).
C11_ReleaseInvoked == (Returned /\ cacquired) => creleases >= 1

\* C12: when several processes find the same S3 lock object older than the
\* lease TTL, at most one of them ends up holding the lock: no two processes
\* hold an unexpired lease at the same time (a contender's delete of the
\* expired object never removes the object another contender just created).
C12_S3MutualExclusion == Cardinality({p \in Procs : S3Holds(p)}) <= 1

\* C13: for an acyclic graph buildInstallLevels returns levels without error
\* in which every node (key or dependency key) is in exactly one level, the
\* first level is exactly the set of nodes without dependencies, and every
\* dependency of a node is in a strictly earlier level than the node.
C13_Levels ==
    (lvpc = "done" /\ ~HasCycle(lgraph)) =>
        /\ lres.err = "nil"
        /\ \A i \in 1..Len(lres.levels) : lres.levels[i] \subseteq GraphNodes(lgraph)
        /\ \A n \in GraphNodes(lgraph) :
              Cardinality({i \in 1..Len(lres.levels) : n \in lres.levels[i]}) = 1
        /\ lres.levels # <<>> =>
              lres.levels[1] = {n \in GraphNodes(lgraph) : DepsOf(lgraph, n) = {}}
        /\ \A n \in DOMAIN lgraph : \A d \in lgraph[n] :
              LevelOf(lres.levels, d) < LevelOf(lres.levels, n)

\* An acyclic graph with three levels and a dependency that is not a key.
C13_Witness ==
    /\ lvpc = "done" /\ ~HasCycle(lgraph)
    /\ Len(lres.levels) >= 3
    /\ GraphNodes(lgraph) # DOMAIN lgraph

\* C14: buildInstallLevels returns DependencyGraphHasACycle exactly when the
\* graph has a directed cycle, a self-dependency included; for an acyclic
\* graph it returns levels and no error.
C14_CycleError ==
    lvpc = "done" =>
        /\ (lres.err = "DependencyGraphHasACycle") <=> HasCycle(lgraph)
        /\ ~HasCycle(lgraph) => lres.err = "nil"

\* A graph whose only cycle is a self-dependency, next to a node that can
\* be levelled, gets the cycle error.
C14_Witness ==
    /\ lvpc = "done"
    /\ lres.err = "DependencyGraphHasACycle"
    /\ \E n \in DOMAIN lgraph :
          /\ n \in lgraph[n]
          /\ \A k \in DOMAIN lgraph \ {n} : n \notin ReachableFrom(lgraph, lgraph[k])
          /\ \A k \in DOMAIN lgraph \ {n} : k \notin ReachableFrom(lgraph, lgraph[k])
          /\ DOMAIN lgraph # {n}

\* The constraints on collection f that are visible in a returned resolution:
\* the root constraint and the constraints declared by the resolved versions
\* of the collections that depend on f in the returned graph.
VisibleConstraints(ret, f) ==
    (IF roots[f] # NoDep THEN {normalizeConstraint(roots[f])} ELSE {})
    \cup {normalizeConstraint(meta[p][ret.resolved[p]][f]) :
            p \in {q \in Fqdns :
                     /\ ret.resolved[q] # 0 /\ ret.resolved[f] # 0
                     /\ Key(q, ret.resolved[q]) \in DOMAIN ret.graph
                     /\ Key(f, ret.resolved[f]) \in ret.graph[Key(q, ret.resolved[q])]}}

\* C15: in the result of a successful full resolve the version of every
\* collection is the greatest published version that satisfies the root
\* constraint on it and every constraint placed on it by the resolved
\* versions of the collections that depend on it in the returned graph.
C15_GreatestVersion ==
    (rpc = "returned" /\ rret.err = "nil") =>
        \A f \in Fqdns :
            rret.resolved[f] # 0 =>
                rret.resolved[f] = selectVersion(Versions, VisibleConstraints(rret, f))

\* C16: an install run that follows a successful install run with
\* dependencies and finds the requirements unchanged takes the full snapshot
\* reuse path (no resolver task, hence no request of the resolver) and leaves
\* the persisted resolved map, the graph and every Installed entry as the first
\* run left them.  (The requests of the installer are not counted here: the
\* formula is the part of the claim about the resolver path and the store.)
C16_SecondRunReuses ==
    second.active =>
        /\ runPath = "snapshot"
        /\ persisted.Resolved = second.before.Resolved
        /\ persisted.Graph = second.before.Graph
        /\ persisted.Installed = second.before.Installed

\* C17: when the call reaches the merge of incremental reuse and the closure
\* resolved for the changed roots and the closure preserved for the
\* unchanged roots give two versions to a collection or two dependency lists
\* to a key, the call returns what a full resolve of all the roots returns,
\* and the resolved map and the graph of the store are those of the full
\* resolve, or the old ones when the full resolve fails.
C17_MergeAbandoned ==
    (qpc = "done" /\ IncrementalReuse /\ (VersionsDisagree \/ DepsDisagree)) =>
        LET full == fullResolve(RunMeta, qroots)
        IN  /\ qret.path = "full"
            /\ qret.err = full.err
            /\ qret.resolved = full.resolved
            /\ qret.graph = full.graph
            /\ qret.store.Resolved = IF full.err = "nil" THEN full.resolved ELSE qsnap.Resolved
            /\ qret.store.Graph = IF full.err = "nil" THEN full.graph ELSE qsnap.Graph

\* Both disagreements in one merge, followed by a full resolve that succeeds
\* with a result that differs from the snapshot.
C17_Witness ==
    /\ qpc = "done"
    /\ IncrementalReuse
    /\ VersionsDisagree
    /\ DepsDisagree
    /\ qret.err = "nil"
    /\ qret.store.Resolved # qsnap.Resolved

\* C18: when the server declares a sha256, a download whose bytes have
\* another hash ends with SHA256Mismatch and without its staging file, on the
\* prefetch path and on the synchronous path; such bytes are never committed
\* to the artifact store, never extracted under a marker and never recorded
\* in Installed, and an install whose own download ended so returns the error
\* without an Installed entry and without a marker.
C18_SHA256Mismatch ==
    dcfg.sha =>
        /\ \A p \in Paths :
              (ddl[p].pc \in {"commit", "done"} /\ ddl[p].bytes = "differ") =>
                  /\ ddl[p].pc = "done"
                  /\ ddl[p].err = "SHA256Mismatch"
                  /\ ~dstaging[p]
        /\ dstore # "differ"
        /\ dmarker # "differ"
        /\ dinstalled # "differ"
        /\ (dinst.pc = "returned" /\ ddl["sync"].err = "SHA256Mismatch") =>
              /\ dinst.err = "SHA256Mismatch"
              /\ dmarker = "none"
              /\ dinstalled = "none"

\* The prefetch and the install worker both downloaded bytes with another
\* hash than the declared one.
C18_Witness ==
    /\ dcfg.sha
    /\ dpre.err = "SHA256Mismatch"
    /\ ddl["sync"].err = "SHA256Mismatch"
    /\ dinst.pc = "returned"

C20_RemovedExactly ==
    kpc = "done" =>
        RemovedRecords = {r \in ScannedRecords : r[2] \notin ReachableKeys(RootKeys)}

\* C21: when an install run returns nil, a cleanup run follows it and an install
\* run with the same requirements and options follows the cleanup and returns
\* nil, the persisted store (which holds no last_snapshot here) and the install
\* paths are what the first install run left.
C21_InstallCleanupInstall ==
    ici.stage = "done" =>
        /\ persisted = ici.persisted
        /\ tree = ici.tree
        /\ infoDirs = ici.infoDirs

\* C22: an install run that returned an error leaves the persisted resolved
\* map and graph as they were when the run started.
C22_FailedRunKeepsSnapshot ==
    (runpc = "idle" /\ runEnded = "error") =>
        /\ persisted.Resolved = runBefore.Resolved
        /\ persisted.Graph = runBefore.Graph
\* C23: LoadStore of a snapshot whose schema version is not the current one
\* returns an error, and the error is UnsupportedSchemaVersion when the version
\* is greater than the current one, on both backends.
C23_SchemaRejected ==
    (bloaded # NotCalled /\ bdisk.present
       /\ bdisk.Meta.SchemaVersion # StoreSnapshotSchemaVersion) =>
        /\ bloaded.err # "nil"
        /\ bdisk.Meta.SchemaVersion > StoreSnapshotSchemaVersion
              => bloaded.err = "UnsupportedSchemaVersion"

\* C24: the LoadStore that follows a SaveStore on the same backend returns a
\* store whose every bucket has the entries that were saved, whose schema
\* version is the current one and whose last_snapshot is not the zero time.
C24_SaveLoadRoundTrip ==
    bpc \in {"reloaded", "failed"} /\ bsaved # NoStore =>
        /\ bloaded.err = "nil"
        /\ \A b \in DataBuckets : SameBucket(b, bloaded.store.Data[b], bsaved.Data[b])
        /\ bloaded.store.Meta.SchemaVersion = StoreSnapshotSchemaVersion
        /\ bloaded.store.Meta.LastSnapshot # 0
\* C25: the os.Remove of a release closure finds the lock file with the payload
\* of the process that releases (or finds no file): it never removes the lock
\* file another process wrote.
C25_ReleaseRemovesOwn ==
    [][\A p \in Procs :
          (lpc[p] = "rel_remove" /\ lpc'[p] = "done") =>
              (lockFile = NoFile \/ lockFile = marshalLockPayload(p))]_vars

\* The last call found a readable entry: the policy allows reads, and the
\* entry under the key has the URL and a non-empty body.
ReadableCall ==
    /\ hcall.made
    /\ hcall.policy.Read
    /\ hcall.before.ok
    /\ hcall.before.entry.URL = TheUrl
    /\ hcall.before.entry.Body # ""

\* The entry the last call found is older than the ttl of the policy.
StaleCall ==
    /\ hcall.policy.TTL # 0
    /\ hcall.now - hcall.before.entry.FetchedAt > hcall.policy.TTL

\* The last call made exactly one GET, with the validators of the entry.
OneConditionalGet ==
    /\ Len(hcall.reqs) = 1
    /\ hcall.reqs[1].IfNoneMatch = hcall.before.entry.ETag
    /\ hcall.reqs[1].IfModifiedSince = hcall.before.entry.LastModified

EntryNow == GetAPICache(hcache, apiCacheKey(TheUrl)).entry

\* The last call returned what decoding the body gives.
CallReturned(body) ==
    /\ hcall.err = (IF body \in {"1", "2"} THEN "nil" ELSE "json")
    /\ hcall.err = "nil" => hcall.out = (IF body = "1" THEN 1 ELSE 2)

\* The entry holds the body and the validators of the 200 response.
Replaced ==
    /\ EntryNow.URL = TheUrl
    /\ EntryNow.Body = hcall.resp.body
    /\ EntryNow.ETag = hcall.resp.etag
    /\ EntryNow.LastModified = hcall.resp.lastModified
    /\ EntryNow.FetchedAt = hcall.now

\* The entry is the one the call found, with fetched_at set to the time of the
\* call and the validators of the 304 response where it carries them.
Refreshed ==
    /\ EntryNow.URL = TheUrl
    /\ EntryNow.Body = hcall.before.entry.Body
    /\ EntryNow.FetchedAt = hcall.now
    /\ EntryNow.ETag = (IF hcall.resp.etag # "" THEN hcall.resp.etag
                        ELSE hcall.before.entry.ETag)
    /\ EntryNow.LastModified = (IF hcall.resp.lastModified # "" THEN hcall.resp.lastModified
                                ELSE hcall.before.entry.LastModified)

ServedFromCache ==
    /\ Len(hcall.reqs) = 0
    /\ EntryNow = hcall.before.entry

\* A step that is a second call for the URL, where the call before it made one
\* request that was answered 200 under a policy that allows writes, and the
\* second call allows reads and comes within its ttl of the first.
SecondFetchWithinTtl ==
    /\ hcall.made /\ hcall'.made
    /\ hnow' = hnow
    /\ Len(hcall.reqs) = 1
    /\ hcall.resp.status = 200
    /\ hcall.policy.Write
    /\ hcall'.policy.Read
    /\ (hcall'.policy.TTL = 0 \/ hcall'.now - hcall.now <= hcall'.policy.TTL)

\* C27 as stated: with a policy that allows reads, an entry that has the URL,
\* a non-empty body and is fresh (ttl zero, or age at most ttl) is served
\* without a request and without a change of the entry, and the second of two
\* fetches within the ttl makes no request.
C27_FreshAlwaysServed ==
    /\ []((ReadableCall /\ ~StaleCall) => ServedFromCache)
    /\ [][SecondFetchWithinTtl => Len(hcall'.reqs) = 0]_vars

\* C27, amended: with a policy that allows reads, an entry that has the URL, a
\* non-empty body that decodes as JSON and is fresh is served without a request
\* and without a change of the entry; a fresh entry whose body does not decode
\* is revalidated with one conditional GET, like a stale one.  The second of
\* two fetches within the ttl makes no request when the first returned no
\* error.
C27_FreshServed ==
    /\ []((ReadableCall /\ ~StaleCall) =>
            IF hcall.before.entry.Body \in {"1", "2"}
            THEN ServedFromCache /\ hcall.err = "nil"
                 /\ CallReturned(hcall.before.entry.Body)
            ELSE OneConditionalGet)
    /\ [][(SecondFetchWithinTtl /\ hcall.err = "nil") => Len(hcall'.reqs) = 0]_vars

\* An entry exactly as old as a non-zero ttl was served from the cache.
C27_Witness ==
    /\ ReadableCall
    /\ hcall.policy.TTL # 0
    /\ hcall.now - hcall.before.entry.FetchedAt = hcall.policy.TTL
    /\ ServedFromCache
    /\ hcall.out # 0


\* Everything in the file system other than the root is below the destination
\* directory.
InsideDst == \A p \in DOMAIN xfs : p = <<>> \/ (Len(p) >= 1 /\ p[1] = DstDir[1])

\* The path goes above the directory it starts in: at some point it has named
\* more ".." than directories.
Escapes(parts) ==
    \E i \in 1..Len(parts) :
        Cardinality({j \in 1..i : parts[j] = ".."})
            > Cardinality({j \in 1..i : parts[j] \notin {"..", "."}})

\* The sanitized path of the entry has a symbolic link of the file system as
\* one of its components.
SymlinkParented(fsys, nm) ==
    \E i \in 1..Len(cleanParts(FALSE, nm.parts, <<>>)) :
        KindAt(fsys, DstDir \o SubSeq(cleanParts(FALSE, nm.parts, <<>>), 1, i)) = "symlink"

\* The path of the entry is empty, absolute, escapes, or is symlink-parented.
BadEntryPath(fsys, nm) ==
    \/ nm = NoName
    \/ nm.abs
    \/ Escapes(nm.parts)
    \/ SymlinkParented(fsys, nm)

\* C28: whatever the entries of the archive, everything that extraction
\* creates is inside the destination directory, also when an earlier entry made
\* a symbolic link that a later path or link target passes through; and an
\* entry whose path is empty, absolute, escapes through "..", or has a symbolic
\* link as a component makes the extraction fail.
C28_ExtractionStaysInside ==
    /\ []InsideDst
    /\ [][(xcount' = xcount + 1 /\ BadEntryPath(xfs, xlast'.Name))
              => (xerr' # "nil" /\ xstate' = "failed")]_vars

\* An earlier entry made a symbolic link, and a regular file whose path passes
\* through it was refused.
C28_Witness ==
    /\ xstate = "failed"
    /\ xlast.Typeflag = "reg"
    /\ Len(xlast.Name.parts) = 2
    /\ KindAt(xfs, Append(DstDir, xlast.Name.parts[1])) = "symlink"
    /\ xerr = "ArchivePathContainsSymlinkComponent"


\* C29: the extract-done marker of an artifact is written only after the
\* extractor has returned success for that artifact, and when an extraction
\* has failed or was interrupted, no later run finds a marker on a partial
\* tree and takes the tree for installed.
C29_MarkerAfterExtraction ==
    /\ [](etrusted # "partial")
    /\ [][\A a \in ArtifactIds :
            (cacheTag(a) \notin epath.markers /\ cacheTag(a) \in epath'.markers)
                => (eart = a /\ eext = "ok" /\ FilesOf(a) \subseteq epath.files)]_vars


\* C30: for a collection whose requirement names no source, a 404 from a
\* candidate URL that is not the last one is not fatal, the next candidate is
\* tried and the first 200 wins; for a collection whose requirement names a
\* source, the first failure is returned.
C30_NotFoundNotFatal ==
    (upc = "returned" /\ utried # <<>>) =>
        /\ (ureq = NoBase /\ utried[Len(utried)] = "404") => Len(utried) = Len(ucands)
        /\ utried[Len(utried)] = "nil" =>
              /\ uerr = "nil"
              /\ \A i \in 1..(Len(utried) - 1) : utried[i] = "404"
        /\ (ureq # NoBase /\ utried[1] # "nil") => (Len(utried) = 1 /\ uerr = utried[1])


\* C31: a run with refresh set chooses the version of a collection with a
\* non-exact constraint from metadata the server sent during this run, the
\* highest published version that satisfies the constraint, and never from a
\* cache of the store or from the snapshot of an earlier run, also when the
\* requirements are unchanged.
C31_RefreshFromServer ==
    (vlast.made /\ vlast.refresh /\ vlast.constraint.op # "=" /\ vlast.err = "nil") =>
        /\ vlast.from = "server"
        /\ vlast.fetched
        /\ vlast.version = selectVersion(1..vlast.highest, {vlast.constraint})

\* C32: a run of either command with dry-run set modifies no state: the
\* install trees, the .info directories, the artifacts and the buckets of the
\* store are what they were when the run started, and the snapshot is not
\* saved.
C32_DryRunModifiesNothing ==
    (ycmd # "none" /\ ydry) =>
        /\ ytree = ybefore.tree
        /\ yinfo = ybefore.info
        /\ yart = ybefore.art
        /\ yst = ybefore.saved
        /\ ysaved = ybefore.saved
        /\ ysaves = 0

\* C33: when the first versions page reports a total above the limit, the
\* list is fetched exactly once more, with limit = total, and the second
\* response is the list that is returned, whatever total it reports; a call
\* never makes more than two page requests.
C33_OneRefetch ==
    /\ Len(gfetches) <= 2
    /\ (gpc = "returned" /\ gfetches # <<>> /\ gfetches[1].total > gfetches[1].limit) =>
          /\ Len(gfetches) = 2
          /\ gfetches[2].limit = gfetches[1].total
          /\ gret.err = "nil" => gret.versions = Min(gfetches[2].limit, gfetches[2].total)

\* C34: whenever the resolver returns successfully with dependencies enabled,
\* by a full resolve or by incremental reuse, the resolved version of every
\* root satisfies the constraint of the root, and for every collection of the
\* result every dependency that the metadata of its resolved version declares
\* is resolved to a version that satisfies the declared constraint.
C34_ConstraintsSatisfied ==
    (zpc = "resolved" /\ ~znodeps /\ zret.err = "nil"
        /\ zret.path \in {"full", "incremental"}) =>
        /\ \A f \in RootSet(zreqs) :
              zret.resolved[f] # 0 /\ constraintSatisfied(zret.resolved[f], zreqs[f])
        /\ \A f \in Fqdns : \A d \in Fqdns :
              (zret.resolved[f] # 0 /\ zmeta[f][zret.resolved[f]][d] # NoDep) =>
                  /\ zret.resolved[d] # 0
                  /\ constraintSatisfied(zret.resolved[d], zmeta[f][zret.resolved[f]][d])

\* The collections reached from the collections S along the dependencies that
\* the metadata of the server declares for their resolved versions.
RECURSIVE DeclaredClosure(_, _)
DeclaredClosure(resolved, S) ==
    LET more == {d \in Fqdns : \E f \in S : resolved[f] # 0
                                   /\ RunMeta[f][resolved[f]][d] # NoDep} \ S
    IN  IF more = {} THEN S ELSE DeclaredClosure(resolved, S \cup more)

\* C35: after an install run without --no-deps that returned nil, every
\* collection of the transitive dependency closure of the roots, as the
\* metadata of the resolved versions declares it, is resolved and its
\* resolved version is installed, whatever the options of the earlier runs
\* on the cache were.
C35_ClosureInstalled ==
    (runpc = "idle" /\ runEnded = "nil" /\ prev.ok) =>
        \A f \in DeclaredClosure(runResolved, RootSet(prev.reqs)) :
            /\ runResolved[f] # 0
            /\ tree[f].exists
            /\ tree[f].manifest = runResolved[f]

\* C36: while a process holds the S3 lock, from its successful acquireLock to
\* its own release, however long that lasts, no other process holds the lock
\* and the lock object is the one the holder created: nobody deleted or
\* replaced it.
C36_HeldUntilRelease ==
    /\ Cardinality({p \in Procs : s3pc[p] = "held"}) <= 1
    /\ \A p \in Procs : s3pc[p] = "held" => s3lock.owner = p

\* The run removed exactly what removeUnused removes for the order of its
\* visits.
RemovedAsReplayed == kpc = "done" => RemovedRecords = RemovedIn(kbroken, korder)

\* C37: a cleanup run removes no installed collection of a registered project
\* merely because the requirements file of that project could not be loaded:
\* a removed record of such a project is also removed by the run that visits
\* the projects in the same order and loads the file.
C37_UnreadableKeepsInstalled ==
    kpc = "done" =>
        \A r \in RemovedRecords :
            r[1] \in kbroken => r \in RemovedIn(kbroken \ {r[1]}, korder)

\* The orders in which the iteration of the map registry.Projects can produce
\* the projects.
VisitOrders == {o \in [1..MaxProjects -> Projects] : \A p \in Projects : \E i \in 1..MaxProjects : o[i] = p}

\* C38: the set of records a cleanup run removes is a function of the
\* registry and the on-disk state: the run removed what it removes under
\* every order of visiting the registered projects.
C38_OrderIndependent ==
    kpc = "done" => \A o \in VisitOrders : RemovedIn(kbroken, o) = RemovedRecords

\* C39: once runInstall has returned, and with it the deferred release
\* closure has run, on every exit path, no prefetch task of the run is still
\* waiting in the task channel or inside prefetchOne, where it writes the API
\* cache of the store and downloads and commits the artifact.
C39_NoPrefetchAfterRelease ==
    ipc = "returned" => \A k \in Keys : ptask[k] \notin {"queued", "fetch"}

\* A step of a goroutine of the two pools that the claim is about: a prefetch
\* worker receives a task, returns from prefetchOne or closes a latch, or an
\* install worker returns from Wait.
WorkerStep ==
    \E k \in Keys :
        (prefetchRecv(k) \/ finish(k) \/ finishClose(k) \/ Wait(k)) /\ InstallOnly

\* The install run under the scheduling of the Go runtime: as long as some
\* goroutine of the two pools can take a step, one of them does.
SpecInstallFair == SpecInstall /\ WF_vars(WorkerStep)

\* C40: every install worker that waits on a registered prefetch key is
\* eventually released, and the latch of every registered key is eventually
\* closed by a prefetch worker, whatever prefetchOne returned and however the
\* two worker pools are loaded.  A worker waits once and a latch is closed
\* once, so this is: from some moment on no install worker waits and no
\* latch is open.
C40_WaitersReleased ==
    <>[](\A k \in Keys : itask[k] # "waiting" /\ pdone[k] # "open")

\* With one prefetch worker and at least two registered keys an install
\* worker was released with the error of a failed prefetch, and nobody waits
\* any more.
C40_Witness ==
    /\ workers = 1
    /\ Cardinality({k \in Keys : pdone[k] = "closed"}) >= 2
    /\ \E k \in Keys : iwait[k].ok /\ iwait[k].err = "err"
    /\ \A k \in Keys : itask[k] # "waiting" /\ pdone[k] # "open"

====
